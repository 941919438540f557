------------------------------ MODULE Markdown ------------------------------
(***************************************************************************)
(* The texts DocColab moves between GitHub, Google Docs and Word, with the  *)
(* three-way merge of sync/conflict_resolver.py and the effect of the DOCX  *)
(* conversions.                                                            *)
(*                                                                         *)
(* A Markdown file is Empty or has one text per line.  A text is the edit  *)
(* that wrote it and the form it is in: "rich" Markdown is what a DOCX      *)
(* cannot carry (a fenced block's language, raw HTML, a thematic break);   *)
(* "ai" is what the AI provider made of a line.  Texts written for          *)
(* different lines never coincide, so a difflib match keeps line numbers.  *)
(* Contents stand for normalised ones: two files that _normalize maps to    *)
(* the same string are the same content, and a hash or a git blob id,      *)
(* being injective on contents, is the content itself.                     *)
(***************************************************************************)
EXTENDS Naturals

CONSTANT NLines

ASSUME NLinesAssumption == NLines \in Nat \ {0}

Lines == 1..NLines
Forms == {"plain", "rich", "ai"}
Text == [edit: Nat, form: Forms]

Empty == <<>>
Written == [Lines -> Text]
Content == Written \cup {Empty}

\* The text every document starts from, as edit 0.
Original == [i \in Lines |-> [edit |-> 0, form |-> "plain"]]

\* What edit e leaves when a person types it over line i of c.
Typed(c, i, e, form) ==
    LET t == [edit |-> e, form |-> form]
    IN  IF c = Empty THEN [j \in Lines |-> t] ELSE [c EXCEPT ![i] = t]

\* The form in which docx_to_markdown reads back what a DOCX was made from.
ReadBack(form) == IF form = "rich" THEN "plain" ELSE form

\* markdown_to_docx: what a DOCX made from c holds, as it is read back.  A second
\* conversion changes nothing more.
Rendered(c) ==
    IF c = Empty THEN Empty
    ELSE [i \in Lines |-> [edit |-> c[i].edit, form |-> ReadBack(c[i].form)]]

\* What the AI provider may answer for c: the text itself, or every line reworked.
Rewrites(c) ==
    {c, IF c = Empty THEN Empty ELSE [i \in Lines |-> [edit |-> c[i].edit, form |-> "ai"]]}

-----------------------------------------------------------------------------
(* The three-way merge.                                                     *)

\* The replaced chunks of difflib: maximal runs of lines that differ.
Changes(base, c) ==
    {r \in {a..b : a, b \in Lines} :
        /\ r # {}
        /\ \A i \in r : c[i] # base[i]
        /\ \A i \in Lines \ r : (i - 1 \in r \/ i + 1 \in r) => c[i] = base[i]}

\* Slip: two changes of the same chunk are taken for one whatever they put there.
ClashSlip(c, r, d, s) == r \cap s # {} /\ r # s

\* Two chunks clash when they share a line, unless they are the same chunk
\* with the same replacement.
Clash(c, r, d, s) ==
    r \cap s # {} /\ ~(r = s /\ \A i \in r : c[i] = d[i])

\* An empty version is one chunk that covers the file, and an empty base takes
\* every version as an insertion at its start.
Overlap(base, c, d) ==
    IF Empty \in {base, c, d}
    THEN c # d
    ELSE \E r \in Changes(base, c), s \in Changes(base, d) : Clash(c, r, d, s)

\* Does ConflictResolver.merge refuse the versions V of base?
Conflicted(base, V) ==
    \E c, d \in V \ {base} : Overlap(base, c, d)

\* What it returns when it does not.
Merged(base, V) ==
    LET moved == V \ {base}
        At(i) == CHOOSE t \in {base[i]} \cup {c[i] : c \in moved} :
                     (\E c \in moved : c[i] # base[i]) => t # base[i]
    IN  CASE moved = {} -> base
          [] moved # {} /\ (base = Empty \/ Empty \in moved) ->
                CHOOSE c \in moved : TRUE
          [] OTHER -> [i \in Lines |-> At(i)]
=============================================================================
