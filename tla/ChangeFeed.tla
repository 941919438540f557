----------------------------- MODULE ChangeFeed -----------------------------
(***************************************************************************)
(* What the agent promises the people who edit in a cloud, before anything  *)
(* is said of their texts: whatever is notified, lost, repeated or          *)
(* interrupted, a pass begins after each change and looks at the document,  *)
(* so that the row's version reaches it, and the row never goes back.       *)
(***************************************************************************)
EXTENDS Naturals

CONSTANTS Clouds, Documents

VARIABLES
    edited,  \* how often each document was changed in each cloud
    seen     \* the version in its row, as the number of changes it stands for

vars == <<edited, seen>>

Init == /\ edited = [c \in Clouds |-> [d \in Documents |-> 0]]
        /\ seen = edited

Change(c, d) == /\ edited' = [edited EXCEPT ![c][d] = @ + 1]
                /\ UNCHANGED seen

\* A pass saves versions it has read, none older than the row's.
Save(d) == \E n \in [Clouds -> UNION {seen[c][d]..edited[c][d] : c \in Clouds}] :
    /\ \A c \in Clouds : n[c] \in seen[c][d]..edited[c][d]
    /\ seen' = [c \in Clouds |-> [seen[c] EXCEPT ![d] = n[c]]]
    /\ UNCHANGED edited

Advance(c, d) == Save(d) /\ seen'[c][d] > seen[c][d]

Next == \/ \E c \in Clouds, d \in Documents : Change(c, d)
        \/ \E d \in Documents : Save(d)

Safety == Init /\ [][Next]_vars
Spec == Safety /\ \A c \in Clouds, d \in Documents : WF_vars(Advance(c, d))

=============================================================================
