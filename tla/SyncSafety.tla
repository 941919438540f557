----------------------------- MODULE SyncSafety -----------------------------
(***************************************************************************)
(* What the passes over a document must and must not do.                    *)
(***************************************************************************)
EXTENDS SyncDocument

\* Type correctness of the record, the locals of a pass and the remote state.
PassLabels ==
    {"idle", "detect_google", "detect_microsoft", "detect_file",
     "export_google", "export_microsoft", "import", "rewrite", "checkpoint",
     "publish_file", "publish_google", "publish_microsoft", "write_google",
     "update_google", "reread_google", "write_microsoft", "reread_microsoft",
     "tag", "finalize", "conflict_google", "conflict_microsoft",
     "conflict_commit", "conflict_pull", "conflict_save"}

TypeOK ==
    /\ main \in Content \cup {Absent}
    /\ committed \in SUBSET Content
    /\ preserved \in SUBSET Content
    /\ pulls \in SUBSET SUBSET Content
    /\ tags \in SUBSET [version: Nat \cup {None}, commit: Pendings \cup {Absent}]
    /\ cloud \in [Clouds -> [text: Content, version: Nat]]
    /\ db \in Record
    /\ history \in Seq(Pendings)
    /\ pc \in PassLabels
    /\ meta \in [Clouds -> Nat \cup {None}]
    /\ file \in Content \cup {Absent}
    /\ got \in [Clouds -> Pendings]
    /\ text \in Pendings
    /\ commit \in Pendings
    /\ opposed \in SUBSET Content
    /\ last \in [Lines -> Nat]
    /\ edits \in Nat
    /\ failures \in Nat

-----------------------------------------------------------------------------
(* Nothing people write is lost.                                            *)

\* Git holds an edit when some text committed to the document's branch or to a
\* conflict branch has it on the line it was made on.
InGit(i, e) == \E k \in committed \cup preserved : k # Empty /\ k[i].edit = e
Captured(c) == c = Empty \/ \A i \in Lines : InGit(i, c[i].edit)

\* Once a pass is over, a cloud version the record has as seen is one whose
\* edits are in Git: "seen" is what keeps a later pass from reading it again.
SeenIsCaptured ==
    Settled => \A s \in Clouds : cloud[s].version = db.seen[s] => Captured(cloud[s].text)

\* An upload never replaces a text that has an edit Git does not hold.
OverwritesOnlyCaptured ==
    [][\A s \in Clouds :
          (cloud'[s] # cloud[s] /\ edits' = edits) => Captured(cloud[s].text)]_vars

-----------------------------------------------------------------------------
(* The record tells the truth.                                              *)

AllSeen ==
    /\ \A s \in Clouds : cloud[s].version = db.seen[s]
    /\ ~GitHubChanged(main)

Holds(s, c) == cloud[s].text \in {c, Rendered(c)}

\* The surfaces a pass writes; a Google document is only read by default.
WrittenTo(s) == s = "google" => GoogleReplace

\* The last version says what the one before it said.
Repeated == Len(history) > 1 /\ history[Len(history)] = history[Len(history) - 1]

\* When nothing is left to do, the file and every written cloud hold the base
\* text, the one the next merge starts from.  A version that repeats the one
\* before it is the exception: see RegeneratesClouds.
AtRest == Settled /\ AllSeen /\ db.status = "ready" /\ main # Absent

Everywhere ==
    /\ main = db.base_markdown
    /\ \A s \in Clouds : WrittenTo(s) => Holds(s, db.base_markdown)

Converged == AtRest /\ ~Repeated => Everywhere

\* When nothing is left to do and no conflict was met, the file has on each
\* line the last thing a person wrote there, on whatever surface.
LatestEditWins ==
    (Settled /\ AllSeen /\ preserved = {} /\ main \notin {Absent, Empty}) =>
        \A i \in Lines : main[i].edit = last[i]

\* A version is tagged only once every cloud it had to reach holds it.
TaggedIsEverywhere ==
    pc \in {"tag", "finalize"} =>
        \A s \in db.pending_surfaces : Holds(s, db.pending_markdown)

\* The row never mixes two publications: what is pending is one text with its
\* blob and the next version number, and a row at rest has none of it.
RecordIsCoherent ==
    /\ db.version = Len(history)
    /\ db.pending_blob_sha = db.pending_markdown
    /\ db.pending_markdown = None =>
          db.pending_version = None /\ db.pending_commit_sha = None
    /\ db.pending_markdown # None =>
          /\ db.pending_version = db.version + 1
          /\ db.pending_commit_sha # None
          /\ db.github_blob_sha = db.pending_markdown
    /\ history # <<>> => db.base_markdown = history[Len(history)]

\* Why it does: what each stage of a pass may rely on.  It is inductive, and the
\* proofs rest on it.
Detecting == {"detect_google", "detect_microsoft", "detect_file", "export_google",
              "export_microsoft", "import", "rewrite", "checkpoint"}
Moved == {"conflict_google", "conflict_microsoft"}
Diverting == {"conflict_commit", "conflict_pull", "conflict_save"}
Writing == {"publish_google", "publish_microsoft", "write_google", "update_google",
            "reread_google", "write_microsoft", "reread_microsoft", "tag", "finalize"}

\* What a pass has read from the branch, or staged, is in the branch's history.
ReadIsCommitted ==
    /\ main # Absent => main \in committed
    /\ file # Absent => file \in committed
    /\ commit # None => commit \in committed
    /\ db.pending_markdown # None => db.pending_markdown \in committed

\* Before the merge every cloud that changed has been exported.
ChangedIsExported ==
    /\ (pc = "export_microsoft" /\ "google" \in Clouds /\ Changed("google"))
          => got["google"] # None
    /\ pc = "import" => \A s \in Clouds : Changed(s) => got[s] # None

\* current_blob is the blob of the text the pass is about to stage.
BlobIsText ==
    /\ commit # None => pc \in {"rewrite", "checkpoint"}
    /\ pc \in {"rewrite", "checkpoint"} =>
          text # None /\ CurrentBlob \in {text, Absent}

\* A pass looks for changes only with nothing to publish, and publishes only
\* with something; its conflicts oppose what is pending.
PhaseFitsRecord ==
    /\ pc \in Detecting => ~Resumable
    /\ pc = "publish_file" => db.pending_markdown # None
    /\ pc \in Writing \cup Moved => Resumable /\ file # Absent
    /\ (pc \in Moved \cup Diverting /\ Resumable) => db.pending_markdown \in opposed
    /\ pc \in {"conflict_pull", "conflict_save"} => opposed \subseteq preserved

PassInv ==
    /\ TypeOK /\ RecordIsCoherent
    /\ ReadIsCommitted /\ ChangedIsExported /\ BlobIsText /\ PhaseFitsRecord
    /\ history \in Seq(committed)

-----------------------------------------------------------------------------
(* What the clouds stand for, as long as nobody edits one while a pass is     *)
(* under way.  It is inductive as well.                                      *)

\* Nobody edits a cloud during a pass, nor while a publication is pending.
CloudsAtRest == Racing \cap Clouds = {}

\* The stages in which a pass has the version of s, has its text, wrote it.
HasVersion(s) ==
    {"detect_file", "export_google", "export_microsoft", "import", "rewrite", "checkpoint"}
        \cup (IF s = "google" THEN {"detect_microsoft"} ELSE {})
HasText(s) ==
    {"import", "rewrite", "checkpoint"}
        \cup (IF s = "google" THEN {"export_microsoft"} ELSE {})
HasWritten(s) ==
    {"reread_microsoft", "tag", "finalize"}
        \cup (IF s = "google" THEN {"reread_google", "write_microsoft"} ELSE {})

\* A version number that was read or recorded is no later than the cloud's.
VersionsAreOld ==
    \A s \in Clouds : \A v \in {db.seen[s], meta[s]} : v # None => v <= cloud[s].version

\* What a pass has read of the clouds is what they still hold.
ReadIsCurrent ==
    \A s \in Clouds :
        /\ pc \in HasVersion(s) => meta[s] = cloud[s].version
        /\ pc \in HasText(s) /\ Changed(s) => got[s] = cloud[s].text

\* The edits of a seen version are in Git, and from the merge to the end of the
\* publication those of every cloud: they are merged or opposed.
EditsAreCaptured ==
    \A s \in Clouds :
        /\ cloud[s].version = db.seen[s] => Captured(cloud[s].text)
        /\ (Resumable \/ pc \in {"rewrite", "checkpoint", "conflict_pull", "conflict_save"})
              => Captured(cloud[s].text)
        /\ pc = "conflict_commit" => Captured(cloud[s].text) \/ cloud[s].text \in opposed

\* The row's canonical text is its base, and a pass publishes what it read.
CanonicalIsBase ==
    /\ IF history = <<>> THEN db.base_markdown = Empty /\ db.canonical_hash = None
                         ELSE db.canonical_hash = db.base_markdown
    /\ pc \in Writing => file = db.pending_markdown

\* A publication has written, or has no need to write, what it must not leave
\* behind: a cloud that was not read again is taken to hold the canonical text.
PendingReaches ==
    \A s \in Clouds :
        /\ pc \in HasWritten(s) /\ s \in db.pending_surfaces => Holds(s, db.pending_markdown)
        /\ (Resumable /\ db.pending_markdown # db.canonical_hash
              /\ WrittenTo(s) /\ s \notin db.pending_surfaces) => Holds(s, db.pending_markdown)

\* A row that says ready is the one of the last publication, or a new one.
ReadyIsPublished ==
    db.status = "ready" =>
        IF history = <<>>
        THEN db.github_blob_sha = None /\ \A s \in Clouds : db.seen[s] = None
        ELSE /\ db.github_blob_sha = db.base_markdown
             /\ ~Repeated => \A s \in Clouds :
                    WrittenTo(s) /\ cloud[s].version = db.seen[s] => Holds(s, db.base_markdown)

CloudFacts ==
    /\ VersionsAreOld /\ ReadIsCurrent /\ EditsAreCaptured
    /\ CanonicalIsBase /\ PendingReaches /\ ReadyIsPublished

CloudInv == PassInv /\ CloudFacts

-----------------------------------------------------------------------------
(* Where the latest edit of a line is, until the first conflict, when people   *)
(* write and neither empty a document nor take the file away.                 *)

PeopleOnlyWrite == Habits \subseteq {"rich", "merge"}
AllWritten == \A s \in Clouds : WrittenTo(s)

Shown == {main} \cup {cloud[s].text : s \in Clouds}

\* Some surface shows the latest edit of a line, if there is one at all; if that is
\* the base's edit, all do.
LatestIsShown(i) ==
    IF db.base_markdown = Empty
    THEN Shown # {Absent} => \E c \in Shown \ {Absent, Empty} : c[i].edit = last[i]
    ELSE IF last[i] = db.base_markdown[i].edit
    THEN \A c \in Shown : c[i].edit = last[i]
    ELSE \E c \in Shown : c[i].edit = last[i]

\* An edit has the number it was made with.
EditsAreNumbered ==
    /\ \A c \in committed \ {Empty} : \A i \in Lines : c[i].edit <= edits
    /\ \A i \in Lines : last[i] <= edits

\* From the merge on the branch shows every latest edit, and keeps showing it while
\* people commit to it; before, what was committed since the pass read the file is.
BranchIsLatest ==
    /\ (Resumable \/ pc \in {"rewrite", "checkpoint"}) =>
          main \in Written /\ \A i \in Lines : main[i].edit = last[i]
    /\ pc \in {"export_google", "export_microsoft", "import"} =>
          IF file = Absent THEN main = Absent /\ Clouds # {}
          ELSE /\ {main, file} \subseteq Written
               /\ \A i \in Lines : main[i] = file[i] \/ main[i].edit = last[i]

\* Between publications the row has a new document's values, or those of the last
\* publication and every cloud that was not read since holds it.
RowIsPublished ==
    IF history = <<>>
    THEN ~Resumable => db.github_blob_sha = None /\ \A s \in Clouds : db.seen[s] = None
    ELSE /\ {db.base_markdown} \cup Shown \subseteq Written
         /\ ~Resumable =>
               /\ db.github_blob_sha = db.base_markdown
               /\ \A s \in Clouds :
                     cloud[s].version = db.seen[s] => Holds(s, db.base_markdown)

NothingEmptied ==
    /\ main # Empty /\ db.pending_markdown # Empty
    /\ pc \in {"rewrite", "checkpoint"} => text # Empty
    /\ pc \in Diverting => opposed # {}
    /\ \A p \in pulls : p \subseteq preserved

\* Before a publication is staged the lines show their latest edits, and from then on
\* the clouds it need not write hold the pending text.
LinesAreShown == ~Resumable => \A i \in Lines : LatestIsShown(i)
OthersHoldPending == Resumable => \A s \in Clouds \ db.pending_surfaces : Holds(s, db.pending_markdown)

LatestFacts ==
    /\ EditsAreNumbered /\ BranchIsLatest /\ RowIsPublished /\ NothingEmptied
    /\ LinesAreShown /\ OthersHoldPending

LatestInv == preserved = {} => LatestFacts

-----------------------------------------------------------------------------

\* Every published text is a commit of the document's branch.
PublishedIsCommitted ==
    \A n \in 1..Len(history) : history[n] \in committed

\* The tag of a published version names a commit with that version's text.
TagsNameTheirVersion ==
    \A t \in tags : t.version <= Len(history) => t.commit = history[t.version]

-----------------------------------------------------------------------------
(* Progress.                                                                *)

Shows(s, i, e) == cloud[s].text # Empty /\ cloud[s].text[i].edit = e

\* An edit that a cloud shows in a version no pass has recorded, while no pass is under
\* way and nothing is pending, gets into Git, through refused commits, conflicts,
\* failures and crashes and with people who go on editing, emptying and deleting:
\* unless somebody empties that cloud or writes over the edit first.  A document that
\* is in error is tried again, so no failure is the last word.
EditsReachGit ==
    \A s \in Clouds, i \in Lines, e \in 1..MaxEdits :
        (Settled /\ cloud[s].version # db.seen[s] /\ Shows(s, i, e))
            ~> \/ InGit(i, e)
               \/ cloud[s].text = Empty
               \/ ~Shows(s, i, e) /\ last[i] # e

-----------------------------------------------------------------------------
(* What the documentation says and the code does not do.                    *)

\* OPERATIONS.md, "No cloud surface is overwritten while an unresolved merge is
\* preserved".
UnresolvedKeepsClouds ==
    [][(pulls # {} /\ edits' = edits) => \A s \in Clouds : cloud'[s] = cloud[s]]_vars

\* OPERATIONS.md, of a conflict that somebody has resolved: "Run one sync pass.
\* DocColab will regenerate both cloud surfaces."
RegeneratesClouds == AtRest => Everywhere

-----------------------------------------------------------------------------
(* The promise: see Publication.                                            *)

P == INSTANCE Publication WITH
        Texts <- Content,
        Nothing <- None,
        staged <- IF Resumable THEN db.pending_markdown ELSE None,
        kept <- committed,
        setAside <- preserved,
        vacant <- main = Absent

\* A document is published as Publication says, failures, crashes and people
\* who edit during a pass included.
KeepsPromise == P!Safety

\* And no text stays pending for ever, but for a file that was deleted.  An empty text is
\* none: line 122 takes it for nothing pending, and it is never published.
KeepsWholePromise == P!Spec
=============================================================================
