--------------------------- MODULE ThreeWayMerge ----------------------------
(***************************************************************************)
(* ConflictResolver.merge as it is written: difflib matches the base with   *)
(* each version, block by block; the changes between the blocks are taken   *)
(* in one by one, then applied from the last to the first.                  *)
(*                                                                         *)
(* A text is the sequence of its lines; only a blank line's being blank     *)
(* matters.  Positions count from 0, as in the code: line i of a text is    *)
(* its element i + 1, and a change of lines start to end - 1 puts           *)
(* replacement in their place.                                             *)
(***************************************************************************)
EXTENDS Integers, Sequences

CONSTANTS
    Blank,     \* a line of white space
    Words,     \* other lines
    MaxLines,  \* bound: lines of the texts that are merged freely
    Versions,  \* how many versions of those there are
    Numbered,  \* lines of those that are merged as Markdown's contents are
    Edits,     \* what wrote a line of those
    Surfaces   \* how many versions of those there are

ASSUME LinesAssumption ==
    /\ MaxLines \in Nat
    /\ {Versions, Numbered, Surfaces} \subseteq Nat \ {0}
    /\ Edits \subseteq Nat /\ 0 \in Edits
    /\ Blank \notin Words \cup (1..Numbered) \X Edits

M == INSTANCE Markdown WITH NLines <- Numbered

VARIABLES base, versions, at, turn, unmatched, matched, changes, left, accepted, text

vars == <<base, versions, at, turn, unmatched, matched, changes, left, accepted, text>>
matching == <<turn, unmatched, matched>>

-----------------------------------------------------------------------------
(* _normalize: no blank line ends a text.                                   *)

Ends(t, n) == (n > 0 => t[n] # Blank) /\ \A i \in (n + 1)..Len(t) : t[i] = Blank
Normal(t) == SubSeq(t, 1, CHOOSE n \in 0..Len(t) : Ends(t, n))

\* Texts merged freely, and contents of Markdown with a version per surface.
Texts == {t \in UNION {[1..n -> Words \cup {Blank}] : n \in 0..MaxLines} : Ends(t, Len(t))}
Contents == {M!Empty} \cup [1..Numbered -> Edits]
Numbers(c) == IF c = M!Empty THEN <<>> ELSE [i \in 1..Numbered |-> <<i, c[i]>>]

Values == {versions[v] : v \in DOMAIN versions}

Init ==
    /\ \/ base \in Texts /\ versions \in [1..Versions -> Texts]
       \/ /\ base \in {Numbers(M!Empty), Numbers([i \in 1..Numbered |-> 0])}
          /\ versions \in [1..Surfaces -> {Numbers(c) : c \in Contents}]
    /\ at = "start"
    /\ turn = 0 /\ unmatched = {} /\ matched = {}
    /\ changes = [t \in Values |-> {}] /\ left = {} /\ accepted = {}
    /\ text = <<>>

-----------------------------------------------------------------------------
(* difflib.SequenceMatcher, without junk.                                   *)

\* What is left to match is a set of pairs of stretches, lines alo to ahi - 1 of the
\* base and blo to bhi - 1 of the version; at first all of both, but nothing of a
\* version that is the base.
Whole(b) ==
    IF b = base THEN {} ELSE {[alo |-> 0, ahi |-> Len(base), blo |-> 0, bhi |-> Len(b)]}

\* The common blocks within r, by their first lines and their length.
Blocks(r, b) ==
    {f \in [i: r.alo..(r.ahi - 1), j: r.blo..(r.bhi - 1), size: 1..(r.ahi - r.alo)] :
        /\ f.i + f.size <= r.ahi /\ f.j + f.size <= r.bhi
        /\ \A x \in 1..f.size : base[f.i + x] = b[f.j + x]}

\* The longest is taken, and of the longest the first in the base, then in the version.
Precedes(f, g) ==
    \/ f.size > g.size
    \/ f.size = g.size /\ (f.i < g.i \/ (f.i = g.i /\ f.j <= g.j))

\* What is left of r on either side of f.
Beside(r, f) ==
    {s \in {[r EXCEPT !.ahi = f.i, !.bhi = f.j],
            [r EXCEPT !.alo = f.i + f.size, !.blo = f.j + f.size]} :
        s.alo < s.ahi /\ s.blo < s.bhi}

\* _changes: what lies between two matches that follow one another.
Between(b, pairs) ==
    LET ends == pairs \cup {<<-1, -1>>, <<Len(base), Len(b)>>}
        Follows(q, p) == p[1] < q[1] /\ \A r \in ends : r[1] <= p[1] \/ q[1] <= r[1]
    IN  {[start |-> e[1][1] + 1, end |-> e[2][1],
          replacement |-> SubSeq(b, e[1][2] + 2, e[2][2])] :
            e \in {e \in ends \X ends :
                      Follows(e[2], e[1]) /\ <<e[1][1] + 1, e[1][2] + 1>> # e[2]}}

-----------------------------------------------------------------------------
(* The merge.                                                               *)

\* Versions that agree are the result, whatever the base was.
Start ==
    /\ at = "start"
    /\ IF \A v \in DOMAIN versions : versions[v] = versions[1]
       THEN at' = "merged" /\ text' = versions[1] /\ UNCHANGED matching
       ELSE /\ at' = "matching" /\ turn' = 1
            /\ unmatched' = Whole(versions[1])
            /\ UNCHANGED <<matched, text>>
    /\ UNCHANGED <<base, versions, changes, left, accepted>>

\* One round of difflib's loop.  Its stack is a set here: where a block is found does
\* not depend on when.
Match ==
    /\ at = "matching"
    /\ \E r \in unmatched :
          LET blocks == Blocks(r, versions[turn])
          IN  \/ /\ blocks = {}
                 /\ unmatched' = unmatched \ {r} /\ UNCHANGED matched
              \/ \E f \in blocks :
                    /\ \A g \in blocks : Precedes(f, g)
                    /\ unmatched' = (unmatched \ {r}) \cup Beside(r, f)
                    /\ matched' = matched \cup {<<f.i + x, f.j + x>> : x \in 0..(f.size - 1)}
    /\ UNCHANGED <<base, versions, at, turn, changes, left, accepted, text>>

\* A version is matched; one that is the base has no changes.  What difflib finds
\* depends on the text alone, so that it is kept by text.
Collect ==
    /\ at = "matching" /\ unmatched = {}
    /\ changes' = [changes EXCEPT ![versions[turn]] =
                      IF versions[turn] = base THEN {} ELSE Between(versions[turn], matched)]
    /\ matched' = {}
    /\ IF turn < Len(versions)
       THEN turn' = turn + 1 /\ unmatched' = Whole(versions[turn']) /\ UNCHANGED <<at, left>>
       ELSE /\ at' = "comparing"
            /\ left' = UNION {{v} \X changes'[versions[v]] : v \in DOMAIN versions}
            /\ UNCHANGED <<turn, unmatched>>
    /\ UNCHANGED <<base, versions, accepted, text>>

\* Two insertions never overlap.
OverlapsSlip(c, d) ==
    CASE c.start = c.end -> d.start <= c.start /\ c.start < d.end
      [] c.start # c.end /\ d.start = d.end -> c.start <= d.start /\ d.start < c.end
      [] OTHER -> c.start < d.end /\ d.start < c.end

Overlaps(c, d) ==
    CASE c.start = c.end /\ d.start = d.end -> c.start = d.start
      [] c.start = c.end /\ d.start # d.end -> d.start <= c.start /\ c.start < d.end
      [] c.start # c.end /\ d.start = d.end -> c.start <= d.start /\ d.start < c.end
      [] OTHER -> c.start < d.end /\ d.start < c.end

\* A change of the same lines is taken for the same change.
EquivalentSlip(c, d) == c.start = d.start /\ c.end = d.end

Equivalent(c, d) == c = d

\* The changes of a version in order, after those of the versions before it.
Earlier(p, q) == p[1] < q[1] \/ (p[1] = q[1] /\ p[2].start <= q[2].start)

\* The conflict document holds every version; the resolver chooses none.
Compare ==
    /\ at = "comparing"
    /\ \E p \in left :
          /\ \A q \in left : Earlier(p, q)
          /\ IF \E d \in accepted : Equivalent(p[2], d)
             THEN UNCHANGED <<at, accepted>>
             ELSE IF \E d \in accepted : Overlaps(p[2], d)
             THEN at' = "conflicted" /\ UNCHANGED accepted
             ELSE accepted' = accepted \cup {p[2]} /\ UNCHANGED at
          /\ left' = left \ {p}
    /\ UNCHANGED <<base, versions, matching, changes, text>>

Compared ==
    /\ at = "comparing" /\ left = {}
    /\ at' = "applying" /\ text' = base
    /\ UNCHANGED <<base, versions, matching, changes, left, accepted>>

\* From the first to the last.
LaterSlip(c, d) == c.start < d.start \/ (c.start = d.start /\ c.end <= d.end)

Later(c, d) == c.start > d.start \/ (c.start = d.start /\ c.end >= d.end)

\* The lines up to start, then the replacement, then those from start on.
SplicedSlip(t, c) == SubSeq(t, 1, c.start) \o c.replacement \o SubSeq(t, c.start + 1, Len(t))

Spliced(t, c) == SubSeq(t, 1, c.start) \o c.replacement \o SubSeq(t, c.end + 1, Len(t))

\* From the last change to the first.
Apply ==
    /\ at = "applying"
    /\ IF accepted = {}
       THEN at' = "merged" /\ text' = Normal(text) /\ UNCHANGED accepted
       ELSE \E c \in accepted :
               /\ \A d \in accepted : Later(c, d)
               /\ text' = Spliced(text, c)
               /\ accepted' = accepted \ {c}
               /\ UNCHANGED at
    /\ UNCHANGED <<base, versions, matching, changes, left>>

Returned == at \in {"merged", "conflicted"} /\ UNCHANGED vars

Next == Start \/ Match \/ Collect \/ Compare \/ Compared \/ Apply \/ Returned

Spec == Init /\ [][Next]_vars

=============================================================================
