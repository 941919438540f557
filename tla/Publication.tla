---------------------------- MODULE Publication ----------------------------
(***************************************************************************)
(* What DocColab promises for one document, whatever happens to the         *)
(* services it talks to and to its own process:                            *)
(*   - published versions form a series that only grows, one at a time;     *)
(*   - at most one version is staged, and only text already in Git is;      *)
(*   - a staged version leaves the stage by becoming the next published     *)
(*     version, or by being set aside in Git for a person to look at;      *)
(*   - what was put in Git stays there;                                     *)
(*   - a staged version does not stay staged for ever, unless somebody      *)
(*     takes the file off the branch.                                       *)
(***************************************************************************)
EXTENDS Naturals, Sequences

CONSTANTS
    Texts,      \* what a version can say
    Nothing     \* not a text: the stage is empty

VARIABLES
    history,    \* the published versions, oldest first
    staged,     \* the version being published, or Nothing
    kept,       \* the texts ever committed on the document's branch
    setAside,   \* the texts ever committed on a conflict branch
    vacant      \* the branch is without the file, which is none of our doing

vars == <<history, staged, kept, setAside>>

Init ==
    /\ history = <<>>
    /\ staged = Nothing
    /\ kept \in SUBSET Texts
    /\ setAside = {}

\* A commit on the document's branch, by anybody.
Keep ==
    /\ kept \subseteq kept' /\ kept' \in SUBSET Texts
    /\ UNCHANGED <<history, staged, setAside>>

SetAside ==
    /\ setAside \subseteq setAside' /\ setAside' \in SUBSET Texts
    /\ UNCHANGED <<history, staged, kept>>

Stage ==
    /\ staged = Nothing
    /\ staged' \in kept
    /\ UNCHANGED <<history, kept, setAside>>

Publish ==
    /\ staged # Nothing
    /\ history' = Append(history, staged)
    /\ staged' = Nothing
    /\ UNCHANGED <<kept, setAside>>

Withdraw ==
    /\ staged # Nothing
    /\ staged \in setAside
    /\ staged' = Nothing
    /\ UNCHANGED <<history, kept, setAside>>

Next == Keep \/ SetAside \/ Stage \/ Publish \/ Withdraw

Safety == Init /\ [][Next]_vars

Spec == Safety /\ (staged # Nothing ~> staged = Nothing \/ vacant)
=============================================================================
