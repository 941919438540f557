------------------------- MODULE SyncLatest_proofs -------------------------
(***************************************************************************)
(* Until the first conflict the latest edit of a line wins, on whatever      *)
(* surface it was made and whatever failed since, when people only write,    *)
(* leave the clouds alone during a pass, and every cloud is written.         *)
(***************************************************************************)
EXTENDS SyncSafety, SyncClouds_proofs

USE DEF PassLabels, Statuses, Detecting, Moved, Diverting, Writing, HasVersion, HasText, HasWritten

\* A text that was converted has the lines and the edits it had.
LEMMA RenderedKeepsEdits ==
  ASSUME NEW c \in Written
  PROVE  Rendered(c) \in Written /\ \A i \in Lines : Rendered(c)[i].edit = c[i].edit
<1>1. c # Empty
  BY EmptyIsNotWritten
<1> QED BY <1>1 DEF Rendered, ReadBack, Written, Text, Forms

\* A cloud that holds a text has its lines and its edits.
LEMMA HoldsEdits ==
  ASSUME NEW s, NEW c \in Written, Holds(s, c)
  PROVE  cloud[s].text \in Written /\ \A i \in Lines : cloud[s].text[i].edit = c[i].edit
  BY RenderedKeepsEdits DEF Holds

\* The texts people can see are contents, or there is no file.
LEMMA ShownTypes ==
  ASSUME TypeOK
  PROVE  Shown \subseteq Content \cup {Absent}
  BY CloudTypes DEF Shown, TypeOK

\* The base text is the last one published.
LEMMA BaseIsCommitted ==
  ASSUME CloudInv
  PROVE  /\ history = <<>> <=> db.canonical_hash = None
         /\ history = <<>> => db.base_markdown = Empty
         /\ history # <<>> => db.base_markdown \in committed
<1>1. history \in Seq(committed) /\ db.base_markdown \in Content
  BY DEF CloudInv, PassInv, TypeOK, Record
<1>2. history # <<>> => history[Len(history)] \in committed
  BY <1>1
<1> QED BY <1>1, <1>2, Markers DEF CloudInv, CloudFacts, CanonicalIsBase, PassInv, RecordIsCoherent

\* A document nobody has synchronised yet satisfies the invariant.
LEMMA InitLatestInv == Init => LatestInv
<1> SUFFICES ASSUME Init PROVE LatestFacts
  BY DEF LatestInv
<1> USE Markers, OriginalIsContent, EmptyIsNotWritten DEF Init, NewRecord
<1>0. Original \in Written /\ Original # Empty /\ \A i \in Lines : Original[i].edit = 0
  BY DEF Original, Written, Text, Forms
<1>1. EditsAreNumbered
  BY <1>0 DEF EditsAreNumbered
<1>2. BranchIsLatest
  BY DEF BranchIsLatest, Resumable
<1>3. RowIsPublished
  BY DEF RowIsPublished
<1>4. NothingEmptied
  BY <1>0 DEF NothingEmptied, Content
<1>5. LinesAreShown
  <2>1. CASE main = Original
    BY <1>0, <2>1 DEF LinesAreShown, LatestIsShown, Shown
  <2>2. CASE main = Absent
    <3>1. \A s \in Clouds : cloud[s].text = Original
      BY <2>2
    <3> QED BY <1>0, <2>2, <3>1 DEF LinesAreShown, LatestIsShown, Shown
  <2> QED BY <2>1, <2>2
<1>6. OthersHoldPending
  BY DEF OthersHoldPending, Resumable
<1> QED BY <1>1, <1>2, <1>3, <1>4, <1>5, <1>6 DEF LatestFacts

-----------------------------------------------------------------------------
(* The steps.                                                               *)

\* Most steps read, or end the pass: they change no text that is in a place people see,
\* nor the row but for its status.
QuietRow ==
    /\ db'.base_markdown = db.base_markdown /\ db'.github_blob_sha = db.github_blob_sha
    /\ db'.seen = db.seen /\ db'.pending_markdown = db.pending_markdown
    /\ db'.pending_surfaces = db.pending_surfaces

LEMMA QuietLatest ==
  ASSUME LatestFacts, QuietRow,
         UNCHANGED <<main, committed, preserved, pulls, cloud, history, last, edits>>,
         pc' \in {"rewrite", "checkpoint"} => pc \in {"rewrite", "checkpoint"} /\ text' = text,
         pc' \in {"export_google", "export_microsoft", "import"} =>
            pc \in {"export_google", "export_microsoft", "import"} /\ file' = file,
         pc' \in Diverting => opposed' # {}
  PROVE  LatestFacts'
<1> USE DEF QuietRow, LatestFacts
<1>1. EditsAreNumbered'
  BY DEF EditsAreNumbered
<1>2. BranchIsLatest'
  BY DEF BranchIsLatest, Resumable
<1>3. RowIsPublished'
  BY DEF RowIsPublished, Resumable, Holds, Shown
<1>4. NothingEmptied'
  BY DEF NothingEmptied
<1>5. LinesAreShown'
  BY DEF LinesAreShown, LatestIsShown, Shown, Resumable
<1>6. OthersHoldPending'
  BY DEF OthersHoldPending, Resumable, Holds
<1> QED BY <1>1, <1>2, <1>3, <1>4, <1>5, <1>6

\* A step that ends the pass.
LEMMA ReturnLatest ==
  ASSUME CloudInv, LatestFacts, Return, db' = db \/ db' = [db EXCEPT !.status = "error"],
         UNCHANGED <<main, committed, preserved, pulls, cloud, history, last, edits>>
  PROVE  LatestFacts'
<1>1. QuietRow
  BY DEF QuietRow, CloudInv, PassInv, TypeOK, Record
<1> QED BY <1>1, QuietLatest DEF Return, GoTo

\* The steps that read the clouds, look at the branch or set versions aside.
LEMMA ReadingLatest ==
  ASSUME CloudInv, LatestFacts,
         \/ StartPass \/ DetectGoogle \/ DetectMicrosoft \/ ExportGoogle \/ ExportMicrosoft
         \/ PublishGoogle \/ PublishMicrosoft \/ RereadGoogle \/ RereadMicrosoft
         \/ ConflictGoogle \/ ConflictMicrosoft \/ Tag
  PROVE  LatestFacts'
<1>1. QuietRow /\ UNCHANGED <<main, committed, preserved, pulls, cloud, history, last, edits>>
  BY DEF QuietRow, StartPass, DetectGoogle, DetectMicrosoft, ExportGoogle, ExportMicrosoft,
         PublishGoogle, PublishMicrosoft, RereadGoogle, RereadMicrosoft, ConflictGoogle,
         ConflictMicrosoft, Tag, ReadMetadata, Export, remoteVars, recordVars, worldVars
<1>2. pc' \notin {"rewrite", "checkpoint"}
  BY DEF StartPass, DetectGoogle, DetectMicrosoft, ExportGoogle, ExportMicrosoft,
         PublishGoogle, PublishMicrosoft, RereadGoogle, RereadMicrosoft, ConflictGoogle,
         ConflictMicrosoft, Tag, ReadMetadata, Export, GoTo
<1>3. pc' \in {"export_google", "export_microsoft", "import"} =>
         pc \in {"export_google", "export_microsoft", "import"} /\ file' = file
  BY DEF StartPass, DetectGoogle, DetectMicrosoft, ExportGoogle, ExportMicrosoft,
         PublishGoogle, PublishMicrosoft, RereadGoogle, RereadMicrosoft, ConflictGoogle,
         ConflictMicrosoft, Tag, ReadMetadata, Export, GoTo
<1>4. pc' \in Diverting => opposed' = opposed /\ pc = "conflict_microsoft"
  BY DEF StartPass, DetectGoogle, DetectMicrosoft, ExportGoogle, ExportMicrosoft,
         PublishGoogle, PublishMicrosoft, RereadGoogle, RereadMicrosoft, ConflictGoogle,
         ConflictMicrosoft, Tag, ReadMetadata, Export, GoTo
<1>5. pc' \in Diverting => opposed' # {}
  BY <1>4 DEF CloudInv, PassInv, PhaseFitsRecord
<1> QED BY <1>1, <1>2, <1>3, <1>5, QuietLatest

\* Versions the merge refuses are there to be opposed.
LEMMA MergeRefusedLatest ==
  ASSUME CloudInv, LatestFacts, MergeRefused
  PROVE  LatestFacts'
<1>1. Candidates # {}
  BY DEF MergeRefused, Conflicted
<1> QED
  BY <1>1, QuietLatest DEF QuietRow, MergeRefused, Oppose, GoTo, remoteVars, recordVars, worldVars

\* What is pending is on the branch, or opposes what is there.
LEMMA PublishFileLatest ==
  ASSUME CloudInv, LatestFacts, PublishFile
  PROVE  LatestFacts'
<1>1. CASE Raise /\ UNCHANGED <<remoteVars, worldVars>>
  BY <1>1, ReturnLatest DEF Raise, remoteVars, worldVars
<1>2. CASE ~(Raise /\ UNCHANGED <<remoteVars, worldVars>>)
  BY <1>2, QuietLatest
     DEF QuietRow, PublishFile, Oppose, GoTo, remoteVars, recordVars, worldVars
<1> QED BY <1>1, <1>2

\* A cloud that is left alone, or moved.
LEMMA KeepLatest ==
  ASSUME CloudInv, LatestFacts, NEW here, NEW next, Keep(here, next),
         next \in {"write_microsoft", "tag", "update_google"}
  PROVE  LatestFacts'
  BY QuietLatest DEF QuietRow, Keep, GoTo, remoteVars, recordVars, worldVars

LEMMA StaleLatest ==
  ASSUME CloudInv, LatestFacts, NEW s, NEW next, Stale(s, next),
         next \in {"write_microsoft", "tag"}
  PROVE  LatestFacts'
  BY QuietLatest DEF QuietRow, Stale, Oppose, GoTo, remoteVars, recordVars, worldVars

LEMMA CheckGoogleLatest ==
  ASSUME CloudInv, LatestFacts, CheckGoogle
  PROVE  LatestFacts'
<1>1. CASE Keep("write_google", "write_microsoft")
  BY <1>1, KeepLatest
<1>2. CASE Stale("google", "write_microsoft")
  BY <1>2, StaleLatest
<1>3. CASE Raise /\ UNCHANGED <<remoteVars, worldVars>>
  BY <1>3, ReturnLatest DEF Raise, remoteVars, worldVars
<1>4. CASE Keep("write_google", "update_google")
  BY <1>4, KeepLatest
<1> QED BY <1>1, <1>2, <1>3, <1>4 DEF CheckGoogle, Keep

\* The pass reads the file people see.
LEMMA DetectFileLatest ==
  ASSUME CloudInv, LatestFacts, DetectFile
  PROVE  LatestFacts'
<1>1. CASE Return
  BY <1>1, ReturnLatest DEF DetectFile, remoteVars, recordVars, worldVars
<1>2. CASE ~Return
  <2>1. /\ pc' = "export_google" /\ file' = main /\ db' = db
        /\ UNCHANGED <<main, committed, preserved, pulls, cloud, history, last, edits>>
        /\ GitHubChanged(main) \/ \E s \in Clouds : Changed(s)
    BY <1>2 DEF DetectFile, GoTo, remoteVars, recordVars, worldVars
  <2> USE <2>1 DEF LatestFacts
  <2>2. EditsAreNumbered'
    BY DEF EditsAreNumbered
  <2>3. BranchIsLatest'
    <3>1. ~Resumable'
      BY DEF DetectFile, CloudInv, PassInv, PhaseFitsRecord, Resumable
    <3>2. main # Absent => main \in Written
      BY DEF NothingEmptied, CloudInv, PassInv, TypeOK, Content
    <3> QED BY <3>1, <3>2 DEF BranchIsLatest, GitHubChanged
  <2>4. RowIsPublished'
    BY DEF RowIsPublished, Resumable, Holds, Shown
  <2>5. NothingEmptied'
    BY DEF NothingEmptied
  <2>6. LinesAreShown'
    BY DEF LinesAreShown, LatestIsShown, Shown, Resumable
  <2>7. OthersHoldPending'
    BY DEF OthersHoldPending, Resumable, Holds
  <2> QED BY <2>2, <2>3, <2>4, <2>5, <2>6, <2>7
<1> QED BY <1>1, <1>2

-----------------------------------------------------------------------------
(* The merge.                                                               *)

\* What the pass gives to the merge: every cloud that is not as it was recorded, and
\* the file unless it is the recorded one.
LEMMA CandidatesAreShown ==
  ASSUME CloudInv, pc = "import"
  PROVE  /\ ~Resumable
         /\ \A s \in Clouds : cloud[s].version # db.seen[s] => cloud[s].text \in Candidates
         /\ GitHubChanged(file) => file \in Candidates
         /\ \A c \in Candidates : \/ c = file /\ file # Absent
                                  \/ \E s \in Clouds : c = cloud[s].text
<1>1. \A s \in Clouds : meta[s] = cloud[s].version /\ (Changed(s) => got[s] = cloud[s].text)
  BY DEF CloudInv, CloudFacts, ReadIsCurrent
<1> QED BY <1>1 DEF Candidates, Changed, GitHubChanged, CloudInv, PassInv, PhaseFitsRecord

\* Of a document that was never published, all that is written is merged, and is one
\* text if nothing clashes.
LEMMA FirstMergeIsLatest ==
  ASSUME CloudInv, LatestFacts, pc = "import", history = <<>>,
         ~Conflicted(db.base_markdown, Candidates)
  PROVE  LET m == Merged(db.base_markdown, Candidates)
         IN  /\ m \in Written
             /\ \A i \in Lines : \/ m[i].edit = last[i]
                                 \/ main # file /\ main \in Written /\ main[i].edit = last[i]
<1>1. ~Resumable /\ db.base_markdown = Empty /\ db.github_blob_sha = None
      /\ \A s \in Clouds : db.seen[s] = None
  BY CandidatesAreShown, BaseIsCommitted DEF LatestFacts, RowIsPublished
<1>2. \A s \in Clouds : cloud[s].text \in Candidates /\ cloud[s].text \in Content
  BY <1>1, CandidatesAreShown, CloudTypes, Markers DEF CloudInv, PassInv
<1>3. file # Absent => file \in Candidates /\ file \in Written /\ main \in Written
  BY <1>1, CandidatesAreShown, Markers
     DEF GitHubChanged, LatestFacts, BranchIsLatest, CloudInv, PassInv, TypeOK
<1>4. file = Absent => main = Absent /\ Clouds # {}
  BY DEF LatestFacts, BranchIsLatest
<1>5. Shown # {Absent}
  <2>1. CASE file # Absent
    BY <1>3, <2>1, Markers DEF Shown, Content
  <2>2. CASE file = Absent
    <3>1. PICK s \in Clouds : TRUE
      BY <1>4, <2>2
    <3>2. cloud[s].text \in Shown /\ cloud[s].text # Absent
      BY <1>2, Markers DEF Shown
    <3> QED BY <3>2
  <2> QED BY <2>1, <2>2
<1>6. \A i \in Lines : \E c \in Shown \ {Absent, Empty} : c[i].edit = last[i]
  BY <1>1, <1>5 DEF LatestFacts, LinesAreShown, LatestIsShown
<1>7. \A c \in Shown \ {Absent, Empty} : c \in Candidates \/ (c = main /\ main # file)
  BY <1>2, <1>3 DEF Shown
<1>8. PICK m \in Candidates : m # Empty
  <2>1. 1 \in Lines
    BY NLinesAssumption DEF Lines
  <2> QED BY <1>3, <1>4, <1>6, <1>7, <2>1, EmptyIsNotWritten
<1>9. \A c \in Candidates \ {Empty} : c = m
  BY <1>1, <1>8 DEF Conflicted, Overlap
<1>10. Merged(db.base_markdown, Candidates) = m
  <2>1. Merged(Empty, Candidates) = CHOOSE c \in Candidates \ {Empty} : TRUE
    BY <1>8 DEF Merged
  <2> QED BY <1>1, <1>8, <1>9, <2>1
<1>11. m \in Written
  BY <1>2, <1>3, <1>8, CandidatesAreShown DEF Content
<1>12. ASSUME NEW i \in Lines
       PROVE  m[i].edit = last[i] \/ (main # file /\ main \in Written /\ main[i].edit = last[i])
  <2>1. PICK c \in Shown \ {Absent, Empty} : c[i].edit = last[i]
    BY <1>6
  <2> QED BY <1>3, <1>4, <1>7, <1>9, <2>1
<1> QED BY <1>10, <1>11, <1>12

\* Of a published one, every surface that moved is merged, and a line that was edited
\* moved on the surface that shows its latest edit.
LEMMA LaterMergeIsLatest ==
  ASSUME CloudInv, LatestFacts, pc = "import", history # <<>>,
         ~Conflicted(db.base_markdown, Candidates)
  PROVE  LET m == Merged(db.base_markdown, Candidates)
         IN  /\ m \in Written
             /\ \A i \in Lines : \/ m[i].edit = last[i]
                                 \/ main # file /\ main \in Written /\ main[i].edit = last[i]
<1> DEFINE base == db.base_markdown
           m == Merged(base, Candidates)
<1>1. /\ base \in Written /\ main \in Written /\ \A s \in Clouds : cloud[s].text \in Written
      /\ db.github_blob_sha = base
      /\ \A s \in Clouds : cloud[s].version = db.seen[s] => Holds(s, base)
  BY CandidatesAreShown DEF LatestFacts, RowIsPublished, Shown
<1>2. file \in Written
  BY <1>1, Markers DEF LatestFacts, BranchIsLatest, Content
<1>3. Candidates \subseteq Written
  BY <1>1, <1>2, CandidatesAreShown
<1>4. m \in Written
  BY <1>1, <1>3, MergedIsWritten
<1>5. ASSUME NEW i \in Lines, main = file PROVE m[i].edit = last[i]
  <2>0. /\ \A c \in Candidates : c[i] # base[i] => m[i] = c[i]
        /\ (\A c \in Candidates : c[i] = base[i]) => m[i] = base[i]
    BY <1>1, <1>3, MergeTakesEveryChange
  <2>1. CASE last[i] = base[i].edit
    <3>1. \A c \in Shown : c[i].edit = last[i]
      BY <1>1, <2>1, CandidatesAreShown, EmptyIsNotWritten DEF LatestFacts, LinesAreShown, LatestIsShown
    <3>2. \A c \in Candidates : c[i].edit = last[i]
      BY <1>5, <3>1, CandidatesAreShown DEF Shown
    <3> QED BY <2>0, <2>1, <3>2
  <2>2. CASE last[i] # base[i].edit
    <3>1. PICK c \in Shown : c[i].edit = last[i]
      BY <1>1, <2>2, CandidatesAreShown, EmptyIsNotWritten DEF LatestFacts, LinesAreShown, LatestIsShown
    <3>2. c[i] # base[i]
      BY <2>2, <3>1
    <3>3. c \in Candidates
      <4>1. CASE c = main
        <5>1. file # base /\ file # Absent
          BY <1>2, <1>5, <3>2, <4>1, Markers DEF Content
        <5> QED BY <1>1, <1>5, <4>1, <5>1, CandidatesAreShown DEF GitHubChanged
      <4>2. ASSUME NEW s \in Clouds, c = cloud[s].text PROVE c \in Candidates
        <5>1. ~Holds(s, base)
          BY <1>1, <2>2, <3>1, <4>2, HoldsEdits
        <5> QED BY <1>1, <4>2, <5>1, CandidatesAreShown
      <4> QED BY <4>1, <4>2 DEF Shown
    <3> QED BY <2>0, <3>1, <3>2, <3>3
  <2> QED BY <2>1, <2>2
<1>6. ASSUME NEW i \in Lines, main # file
      PROVE  m[i].edit = last[i] \/ main[i].edit = last[i]
  <2>0. /\ \A c \in Candidates : c[i] # base[i] => m[i] = c[i]
    BY <1>1, <1>3, MergeTakesEveryChange
  <2>1. CASE last[i] = base[i].edit
    BY <1>1, <2>1, CandidatesAreShown, EmptyIsNotWritten
       DEF LatestFacts, LinesAreShown, LatestIsShown, Shown
  <2>2. CASE last[i] # base[i].edit
    <3>1. PICK c \in Shown : c[i].edit = last[i]
      BY <1>1, <2>2, CandidatesAreShown, EmptyIsNotWritten DEF LatestFacts, LinesAreShown, LatestIsShown
    <3>2. ASSUME NEW s \in Clouds, c = cloud[s].text PROVE c \in Candidates
      <4>1. ~Holds(s, base)
        BY <1>1, <2>2, <3>1, <3>2, HoldsEdits
      <4> QED BY <1>1, <3>2, <4>1, CandidatesAreShown
    <3> QED BY <2>0, <2>2, <3>1, <3>2 DEF Shown
  <2> QED BY <2>1, <2>2
<1> QED BY <1>1, <1>4, <1>5, <1>6

\* A merge that is not refused shows every latest edit, but for what was committed while
\* the pass was reading.
LEMMA MergeIsLatest ==
  ASSUME CloudInv, LatestFacts, pc = "import", ~Conflicted(db.base_markdown, Candidates)
  PROVE  LET m == Merged(db.base_markdown, Candidates)
         IN  /\ m \in Written
             /\ \A i \in Lines : \/ m[i].edit = last[i]
                                 \/ main # file /\ main \in Written /\ main[i].edit = last[i]
<1>1. CASE history = <<>>
  BY <1>1, FirstMergeIsLatest
<1>2. CASE history # <<>>
  BY <1>2, LaterMergeIsLatest
<1> QED BY <1>1, <1>2

\* A pass that leaves on the branch a text with every latest edit.
LEMMA BranchShowsLatest ==
  ASSUME CloudInv, LatestFacts, pc \in {"import", "rewrite"}, pc' \in {"rewrite", "checkpoint"},
         main' \in Written, \A i \in Lines : main'[i].edit = last[i],
         committed' \subseteq committed \cup {main'}, text' # Empty,
         UNCHANGED <<preserved, pulls, cloud, db, history, last, edits>>
  PROVE  LatestFacts'
<1> USE EmptyIsNotWritten DEF LatestFacts
<1>0. ~Resumable /\ ~Resumable'
  BY DEF CloudInv, PassInv, PhaseFitsRecord, Resumable
<1>1. EditsAreNumbered'
  BY DEF EditsAreNumbered
<1>2. BranchIsLatest'
  BY DEF BranchIsLatest
<1>3. RowIsPublished'
  BY DEF RowIsPublished, Resumable, Holds, Shown
<1>4. NothingEmptied'
  BY DEF NothingEmptied
<1>5. LinesAreShown'
  <2>1. ASSUME NEW i \in Lines PROVE LatestIsShown(i)'
    <3>1. LatestIsShown(i) /\ main'[i].edit = last[i]
      BY <1>0 DEF LinesAreShown
    <3>2. main' # Absent /\ main' # Empty
      BY Markers DEF Content
    <3> QED BY <3>1, <3>2 DEF LatestIsShown, Shown
  <2> QED BY <2>1 DEF LinesAreShown
<1>6. OthersHoldPending'
  BY <1>0 DEF OthersHoldPending
<1> QED BY <1>1, <1>2, <1>3, <1>4, <1>5, <1>6

\* A commit goes through only on the file the pass has merged; without one the branch
\* has the merged text, but for what people committed since.
LEMMA ImportLatest ==
  ASSUME CloudInv, LatestFacts, Import
  PROVE  LatestFacts'
<1> DEFINE m == Merged(db.base_markdown, Candidates)
<1>0. /\ pc = "import" /\ m \in Written /\ m # Empty
      /\ \A i \in Lines : \/ m[i].edit = last[i]
                          \/ main # file /\ main \in Written /\ main[i].edit = last[i]
  BY MergeIsLatest, EmptyIsNotWritten DEF Import
<1>1. /\ UNCHANGED <<preserved, pulls, cloud, worldVars>>
      /\ \/ main' = m /\ committed' = committed \cup {m} /\ main = file
            /\ pc' = "rewrite" /\ text' = m /\ UNCHANGED recordVars
         \/ Raise /\ UNCHANGED <<main, committed>>
         \/ file = m /\ main' = main /\ committed' = committed
            /\ pc' = "rewrite" /\ text' = m /\ UNCHANGED recordVars
  <2> HIDE DEF m
  <2>1. IF (IF file = Absent THEN Empty ELSE file) # m
        THEN CommitOrRaise(m, file, "rewrite")
        ELSE /\ text' = m
             /\ GoTo("rewrite")
             /\ UNCHANGED <<main, committed, recordVars, meta, file, got, commit, opposed>>
    BY DEF Import, m
  <2> QED
    BY <1>0, <2>1 DEF Import, CommitOrRaise, CanCommit, CommitToMain, GoTo
<1> HIDE DEF m
<1>2. CASE main' = m /\ committed' = committed \cup {m} /\ main = file
           /\ pc' = "rewrite" /\ text' = m /\ UNCHANGED recordVars
  BY <1>0, <1>1, <1>2, BranchShowsLatest DEF recordVars, worldVars
<1>3. CASE Raise /\ UNCHANGED <<main, committed>>
  BY <1>1, <1>3, ReturnLatest DEF Raise, worldVars
<1>4. CASE file = m /\ main' = main /\ committed' = committed
           /\ pc' = "rewrite" /\ text' = m /\ UNCHANGED recordVars
  <2>1. file # Absent
    BY <1>0, <1>4, Markers DEF Content
  <2>2. main \in Written /\ \A i \in Lines : main[i] = m[i] \/ main[i].edit = last[i]
    BY <1>0, <1>4, <2>1 DEF LatestFacts, BranchIsLatest
  <2>3. \A i \in Lines : main[i].edit = last[i]
    BY <1>0, <2>2
  <2> QED BY <1>0, <1>1, <1>4, <2>2, <2>3, BranchShowsLatest DEF recordVars, worldVars
<1> QED BY <1>1, <1>2, <1>3, <1>4

\* The AI provider reworks the text of the branch, edit for edit.
LEMMA RewriteLatest ==
  ASSUME CloudInv, LatestFacts, Rewrite
  PROVE  LatestFacts'
<1>0. /\ pc = "rewrite" /\ CurrentBlob \in {text, Absent} /\ text \in Written
      /\ main \in Written /\ \A i \in Lines : main[i].edit = last[i]
  BY DEF Rewrite, LatestFacts, BranchIsLatest, NothingEmptied, CloudInv, PassInv, BlobIsText,
         TypeOK, Pendings, Content
<1>1. PICK r \in {text} \cup Rewrites(text) :
        IF r # text
        THEN CommitOrRaise(r, CurrentBlob, "checkpoint")
        ELSE /\ GoTo("checkpoint")
             /\ UNCHANGED <<main, committed, recordVars, meta, file, got, text, commit, opposed>>
  BY DEF Rewrite
<1>2. r \in Written /\ r # Empty /\ \A i \in Lines : r[i].edit = text[i].edit
  BY <1>0, EmptyIsNotWritten DEF Rewrites, Written, Text, Forms
<1>3. CASE r = text
  <2>1. UNCHANGED <<main, committed, preserved, pulls, cloud, db, history, last, edits, text>>
        /\ pc' = "checkpoint"
    BY <1>1, <1>3 DEF Rewrite, GoTo, recordVars, worldVars
  <2> QED BY <1>0, <1>2, <1>3, <2>1, BranchShowsLatest
<1>4. CASE r # text /\ main = CurrentBlob
  <2>1. main = text
    BY <1>0, <1>4, Markers DEF Content
  <2>2. /\ main' = r /\ committed' = committed \cup {r} /\ text' = r /\ pc' = "checkpoint"
        /\ UNCHANGED <<preserved, pulls, cloud, db, history, last, edits>>
    BY <1>1, <1>4 DEF CommitOrRaise, CanCommit, CommitToMain, GoTo, Rewrite, recordVars, worldVars
  <2> QED BY <1>0, <1>2, <2>1, <2>2, BranchShowsLatest
<1>5. CASE r # text /\ main # CurrentBlob
  <2>1. Raise /\ UNCHANGED <<main, committed, preserved, pulls, cloud, worldVars>>
    BY <1>1, <1>5 DEF CommitOrRaise, CanCommit, Rewrite
  <2> QED BY <2>1, ReturnLatest DEF Raise, worldVars
<1> QED BY <1>3, <1>4, <1>5

\* A publication is staged with the branch's text, and a cloud it leaves out holds it:
\* the cloud was read just now, or is as the last version left it.
LEMMA CheckpointLatest ==
  ASSUME AllWritten, CloudInv, LatestFacts, Checkpoint
  PROVE  LatestFacts'
<1>1. CASE CurrentBlob = Absent
  BY <1>1, ReturnLatest DEF Checkpoint, Raise, remoteVars, worldVars
<1>2. CASE CurrentBlob # Absent
  <2>0. /\ pc = "checkpoint" /\ text \in Written /\ db' = Staged /\ pc' = "publish_file"
        /\ UNCHANGED <<main, committed, preserved, pulls, cloud, history, last, edits>>
        /\ ~Resumable
    BY <1>2 DEF Checkpoint, GoTo, remoteVars, worldVars, LatestFacts, NothingEmptied, CloudInv,
                PassInv, BlobIsText, PhaseFitsRecord, TypeOK, Pendings, Content
  <2>1. /\ db'.base_markdown = db.base_markdown /\ db'.pending_markdown = text
        /\ db'.pending_surfaces = PendingSurfaces(text)
    BY <2>0 DEF Staged, CloudInv, PassInv, TypeOK, Record
  <2>2. text # None /\ text # Empty /\ Resumable'
    BY <2>0, <2>1, Markers, EmptyIsNotWritten DEF Resumable, Content
  <2>3. ASSUME NEW s \in Clouds \ PendingSurfaces(text) PROVE Holds(s, text)
    <3>0. SurfaceHash(s) = text
      BY <2>3 DEF PendingSurfaces, AllWritten, WrittenTo
    <3>1. meta[s] = cloud[s].version /\ (Changed(s) => got[s] = cloud[s].text)
      BY <2>0 DEF CloudInv, CloudFacts, ReadIsCurrent
    <3>2. CASE Changed(s)
      BY <3>0, <3>1, <3>2 DEF SurfaceHash, Holds
    <3>3. CASE ~Changed(s)
      <4>1. db.canonical_hash = text /\ cloud[s].version = db.seen[s]
        BY <3>0, <3>1, <3>3 DEF SurfaceHash, Changed
      <4>2. history # <<>> /\ text = db.base_markdown
        BY <2>2, <4>1, BaseIsCommitted DEF CloudInv, CloudFacts, CanonicalIsBase
      <4> QED BY <2>0, <4>1, <4>2 DEF LatestFacts, RowIsPublished
    <3> QED BY <3>2, <3>3
  <2> USE <2>0, <2>1, <2>2 DEF LatestFacts
  <2>4. EditsAreNumbered'
    BY DEF EditsAreNumbered
  <2>5. BranchIsLatest'
    BY DEF BranchIsLatest
  <2>6. RowIsPublished'
    BY DEF RowIsPublished, Shown
  <2>7. NothingEmptied'
    BY DEF NothingEmptied
  <2>8. LinesAreShown'
    BY DEF LinesAreShown
  <2>9. OthersHoldPending'
    BY <2>3 DEF OthersHoldPending, Holds
  <2> QED BY <2>4, <2>5, <2>6, <2>7, <2>8, <2>9
<1> QED BY <1>1, <1>2

-----------------------------------------------------------------------------
(* The publication.                                                         *)

\* An upload puts the pending text, whose lines are the branch's.
LEMMA UploadLatest ==
  ASSUME CloudInv, LatestFacts, NEW s, Upload(s), Resumable, pc' \in PassLabels \ Detecting,
         pc' \notin Diverting,
         UNCHANGED <<main, committed, preserved, pulls, db, history, last, edits>>
  PROVE  LatestFacts'
<1> DEFINE r == Rendered(db.pending_markdown)
<1>0. r \in Written
  BY RenderedKeepsEdits
     DEF Resumable, CloudInv, PassInv, TypeOK, Record, Pendings, Content
<1>1. \A t \in Clouds : \/ cloud'[t] = cloud[t]
                        \/ cloud'[t].text = r
  <2> DEFINE n == cloud[s].version + 1
  <2> HIDE DEF r, n
  <2>1. cloud' = [cloud EXCEPT ![s] = [text |-> r, version |-> n]]
    BY DEF Upload, r, n
  <2> QED BY <2>1 DEF CloudInv, PassInv, TypeOK
<1>2. \A t \in Clouds : cloud'[t].text = r => Holds(t, db.pending_markdown)'
  BY DEF Holds
<1> HIDE DEF r
<1> USE DEF LatestFacts
<1>3. EditsAreNumbered'
  BY DEF EditsAreNumbered
<1>4. BranchIsLatest'
  BY DEF BranchIsLatest, Resumable
<1>5. RowIsPublished'
  BY <1>0, <1>1 DEF RowIsPublished, Resumable, Shown
<1>6. NothingEmptied'
  BY DEF NothingEmptied
<1>7. LinesAreShown'
  BY DEF LinesAreShown, Resumable
<1>8. OthersHoldPending'
  BY <1>1, <1>2 DEF OthersHoldPending, Resumable, Holds
<1> QED BY <1>3, <1>4, <1>5, <1>6, <1>7, <1>8

LEMMA UpdateGoogleLatest ==
  ASSUME CloudInv, LatestFacts, UpdateGoogle
  PROVE  LatestFacts'
<1>1. Resumable
  BY DEF UpdateGoogle, CloudInv, PassInv, PhaseFitsRecord
<1> QED BY <1>1, UploadLatest DEF UpdateGoogle, GoTo, recordVars, worldVars

LEMMA ReplaceMicrosoftLatest ==
  ASSUME CloudInv, LatestFacts, ReplaceMicrosoft
  PROVE  LatestFacts'
<1>1. CASE Keep("write_microsoft", "tag")
  BY <1>1, KeepLatest
<1>2. CASE Stale("microsoft", "tag")
  BY <1>2, StaleLatest
<1>3. CASE Raise /\ UNCHANGED <<main, committed, preserved, pulls, cloud, worldVars>>
  BY <1>3, ReturnLatest DEF Raise, worldVars
<1>4. CASE /\ pc = "write_microsoft" /\ Upload("microsoft") /\ GoTo("reread_microsoft")
           /\ UNCHANGED <<main, committed, preserved, pulls, recordVars, worldVars>>
  <2>1. Resumable
    BY <1>4 DEF CloudInv, PassInv, PhaseFitsRecord
  <2> QED BY <1>4, <2>1, UploadLatest DEF GoTo, recordVars, worldVars
<1> QED BY <1>1, <1>2, <1>3, <1>4 DEF ReplaceMicrosoft

\* When it is published, every cloud holds the text and the branch its latest edits.
LEMMA FinalizeLatest ==
  ASSUME CloudInv, LatestFacts, Finalize
  PROVE  LatestFacts'
<1> DEFINE p == db.pending_markdown
<1>0. /\ pc = "finalize" /\ pc' = "idle" /\ history' = Append(history, p)
      /\ UNCHANGED <<main, committed, preserved, pulls, cloud, last, edits>>
      /\ Resumable /\ file = p /\ p \in Written
      /\ main \in Written /\ \A i \in Lines : main[i].edit = last[i]
  BY DEF Finalize, Return, GoTo, remoteVars, worldVars, CloudInv, CloudFacts, CanonicalIsBase,
         PassInv, PhaseFitsRecord, Resumable, TypeOK, Record, Pendings, Content, LatestFacts,
         BranchIsLatest
<1>1. /\ db'.base_markdown = p /\ db'.github_blob_sha = p /\ db'.pending_markdown = None
  <2>1. db' = Completed /\ db \in Record /\ file = p
    BY <1>0 DEF Finalize, CloudInv, PassInv, TypeOK
  <2> HIDE DEF p
  <2> QED BY <2>1 DEF Completed, NoPending, Record, p
<1>2. \A s \in Clouds : Holds(s, p)
  BY <1>0, CloudTypes
     DEF CloudInv, CloudFacts, PassInv, PendingReaches, LatestFacts, OthersHoldPending
<1>3. \A s \in Clouds : cloud[s].text \in Written /\ \A i \in Lines : cloud[s].text[i].edit = p[i].edit
  BY <1>0, <1>2, HoldsEdits
<1>4. history' # <<>> /\ ~Resumable'
  BY <1>0, <1>1 DEF Resumable, CloudInv, PassInv, TypeOK
<1>5. \A s \in Clouds : Holds(s, db.base_markdown)'
  BY <1>0, <1>1, <1>2 DEF Holds
<1> HIDE DEF p
<1> USE <1>0, <1>1, <1>4 DEF LatestFacts
<1>6. EditsAreNumbered'
  BY DEF EditsAreNumbered
<1>7. BranchIsLatest'
  BY DEF BranchIsLatest
<1>8. RowIsPublished'
  BY <1>3, <1>5 DEF RowIsPublished, Shown
<1>9. NothingEmptied'
  BY Markers, EmptyIsContent DEF NothingEmptied
<1>10. LinesAreShown'
  BY <1>3, EmptyIsNotWritten DEF LinesAreShown, LatestIsShown, Shown
<1>11. OthersHoldPending'
  BY DEF OthersHoldPending
<1> QED BY <1>6, <1>7, <1>8, <1>9, <1>10, <1>11

\* A conflict that is recorded is preserved.
LEMMA ConflictIsPreserved ==
  ASSUME CloudInv, LatestFacts, ConflictCommit \/ ConflictPull \/ ConflictSave
  PROVE  preserved' # {}
<1>1. opposed # {}
  BY DEF LatestFacts, NothingEmptied, ConflictCommit, ConflictPull, ConflictSave
<1>2. CASE ConflictCommit
  BY <1>1, <1>2 DEF ConflictCommit
<1>3. CASE ConflictPull \/ ConflictSave
  BY <1>1, <1>3 DEF ConflictPull, ConflictSave, CloudInv, PassInv, PhaseFitsRecord, remoteVars
<1> QED BY <1>2, <1>3

-----------------------------------------------------------------------------
(* People.                                                                  *)

\* What a person typed is shown, and what was shown elsewhere stays.
LEMMA EditIsShown ==
  ASSUME CloudInv, LatestFacts, NEW c \in Shown, NEW n \in Written,
         c # Absent, n \in Shown', Shown \subseteq Shown' \cup {c}, Shown' \subseteq Shown \cup {n},
         \A j \in Lines : \/ last'[j] = edits + 1 /\ n[j].edit = edits + 1
                          \/ last'[j] = last[j] /\ n[j] = c[j] /\ c # Empty,
         UNCHANGED <<db, history>>
  PROVE  LinesAreShown'
<1> SUFFICES ASSUME ~Resumable', NEW j \in Lines PROVE LatestIsShown(j)'
  BY DEF LinesAreShown
<1>0. LatestIsShown(j) /\ db' = db
  BY DEF LatestFacts, LinesAreShown, Resumable
<1>1. n # Absent /\ n # Empty
  BY Markers, EmptyIsNotWritten DEF Content
<1>2. CASE last'[j] = edits + 1 /\ n[j].edit = edits + 1
  <2>1. db.base_markdown # Empty => last'[j] # db.base_markdown[j].edit
    <3> SUFFICES ASSUME db.base_markdown # Empty PROVE last'[j] # db.base_markdown[j].edit
      OBVIOUS
    <3>1. db.base_markdown \in committed /\ db.base_markdown \in Written
      BY BaseIsCommitted DEF CloudInv, PassInv, TypeOK, Record, Content
    <3>2. db.base_markdown[j].edit \in Nat /\ edits \in Nat
      BY <3>1 DEF Written, Text, CloudInv, PassInv, TypeOK
    <3>3. db.base_markdown[j].edit <= edits
      BY <3>1, EmptyIsNotWritten DEF LatestFacts, EditsAreNumbered
    <3> QED BY <1>2, <3>2, <3>3
  <2> QED BY <1>0, <1>1, <1>2, <2>1 DEF LatestIsShown
<1>3. CASE last'[j] = last[j] /\ n[j] = c[j] /\ c # Empty
  <2>1. CASE db.base_markdown = Empty
    <3>1. PICK d \in Shown \ {Absent, Empty} : d[j].edit = last[j]
      BY <1>0, <2>1 DEF LatestIsShown
    <3>2. \E d2 \in Shown' \ {Absent, Empty} : d2[j].edit = last[j]
      BY <1>1, <1>3, <3>1
    <3> QED BY <1>0, <1>3, <2>1, <3>2 DEF LatestIsShown
  <2>2. CASE db.base_markdown # Empty
    <3>1. IF last[j] = db.base_markdown[j].edit
          THEN \A d \in Shown : d[j].edit = last[j]
          ELSE \E d \in Shown : d[j].edit = last[j]
      BY <1>0, <2>2 DEF LatestIsShown
    <3>2. IF last[j] = db.base_markdown[j].edit
          THEN \A d \in Shown' : d[j].edit = last[j]
          ELSE \E d \in Shown' : d[j].edit = last[j]
      BY <1>3, <3>1
    <3> QED BY <1>0, <1>3, <2>2, <3>2 DEF LatestIsShown
  <2> QED BY <2>1, <2>2
<1> QED BY <1>2, <1>3

\* An edit of a cloud, between two passes.
LEMMA EditCloudLatest ==
  ASSUME CloudsAtRest, CloudInv, LatestFacts, NEW s \in Clouds, NEW i \in Lines, EditCloud(s, i)
  PROVE  LatestFacts'
<1> DEFINE c == cloud[s].text
           n == Typed(c, i, edits + 1, "plain")
<1>0. /\ pc = "idle" /\ pc' = pc /\ ~Resumable /\ edits' = edits + 1 /\ edits \in Nat
      /\ db' = db /\ history' = history
      /\ UNCHANGED <<main, committed, preserved, pulls>>
      /\ c \in Content
  BY CloudTypes DEF EditCloud, Edit, Settled, CloudsAtRest, recordVars, passVars, CloudInv,
                    PassInv, TypeOK
<1>1. /\ n \in Written
      /\ \A j \in Lines : IF j = i \/ c = Empty THEN n[j].edit = edits + 1 ELSE n[j] = c[j]
  BY <1>0, TypedLines DEF Forms
<1>2. \A j \in Lines : last'[j] = IF j = i \/ c = Empty THEN edits + 1 ELSE last[j]
  BY DEF EditCloud, Touch
<1>3. cloud' = [cloud EXCEPT ![s] = [text |-> n, version |-> cloud[s].version + 1]]
  BY DEF EditCloud
<1> HIDE DEF n
<1>4. /\ \A t \in Clouds : t # s => cloud'[t] = cloud[t]
      /\ cloud'[s].text = n
      /\ \A t \in Clouds : cloud'[t].version = db.seen[t] => cloud'[t] = cloud[t]
  BY <1>0, <1>3, MovedCloud
<1>5. c \in Shown /\ n \in Shown' /\ Shown \subseteq Shown' \cup {c} /\ Shown' \subseteq Shown \cup {n}
  BY <1>0, <1>4 DEF Shown
<1> HIDE DEF c
<1>6. LinesAreShown'
  BY <1>0, <1>1, <1>2, <1>5, EditIsShown, Markers
<1> USE <1>0 DEF LatestFacts
<1>7. EditsAreNumbered'
  <2>1. \A k \in committed \ {Empty} : \A j \in Lines : k[j].edit \in Nat
    BY DEF CloudInv, PassInv, TypeOK, Content, Written, Text
  <2>2. \A j \in Lines : last[j] \in Nat
    BY DEF CloudInv, PassInv, TypeOK
  <2> QED BY <1>2, <2>1, <2>2 DEF EditsAreNumbered
<1>8. BranchIsLatest'
  BY DEF BranchIsLatest, Resumable
<1>9. RowIsPublished'
  BY <1>1, <1>4, <1>5 DEF RowIsPublished, Resumable, Holds
<1>10. NothingEmptied'
  BY DEF NothingEmptied
<1>11. OthersHoldPending'
  BY DEF OthersHoldPending, Resumable
<1> QED BY <1>6, <1>7, <1>8, <1>9, <1>10, <1>11

\* An edit of the branch, at any moment.
LEMMA EditMainLatest ==
  ASSUME CloudInv, LatestFacts, NEW i \in Lines, NEW form \in {"plain", "rich"}, EditMain(i, form)
  PROVE  LatestFacts'
<1>0. /\ pc' = pc /\ edits' = edits + 1 /\ edits \in Nat /\ UNCHANGED <<db, history, file, text, opposed>>
      /\ UNCHANGED <<cloud, preserved, pulls>>
      /\ main \in Written /\ main # Empty /\ main # Absent
  BY EmptyIsNotWritten DEF EditMain, Edit, recordVars, passVars, CloudInv, PassInv, TypeOK, Content,
         LatestFacts, NothingEmptied
<1>1. /\ main' \in Written /\ committed' = committed \cup {main'}
      /\ \A j \in Lines : IF j = i THEN main'[j].edit = edits + 1 ELSE main'[j] = main[j]
  <2>1. main' = Typed(main, i, edits + 1, form) /\ main \in Content
    BY <1>0 DEF EditMain, CommitToMain, Content
  <2> QED BY <1>0, <2>1, TypedLines DEF EditMain, CommitToMain, Forms
<1>2. \A j \in Lines : last'[j] = IF j = i THEN edits + 1 ELSE last[j]
  BY <1>0 DEF EditMain, Touch
<1>3. /\ main \in Shown /\ main' \in Shown'
      /\ Shown \subseteq Shown' \cup {main} /\ Shown' \subseteq Shown \cup {main'}
  BY <1>0 DEF Shown
<1>4. LinesAreShown'
  BY <1>0, <1>1, <1>2, <1>3, EditIsShown
<1> USE <1>0 DEF LatestFacts
<1>5. EditsAreNumbered'
  <2>1. \A k \in committed \ {Empty} : \A j \in Lines : k[j].edit \in Nat /\ k[j].edit <= edits
    BY DEF CloudInv, PassInv, TypeOK, Content, Written, Text, EditsAreNumbered
  <2>2. \A j \in Lines : last[j] \in Nat /\ last[j] <= edits
    BY DEF CloudInv, PassInv, TypeOK, EditsAreNumbered
  <2>3. \A j \in Lines : main'[j].edit <= edits + 1
    <3>1. main \in committed
      BY DEF CloudInv, PassInv, ReadIsCommitted
    <3> QED BY <1>1, <2>1, <3>1
  <2> QED BY <1>1, <1>2, <2>1, <2>2, <2>3 DEF EditsAreNumbered
<1>6. BranchIsLatest'
  BY <1>1, <1>2 DEF BranchIsLatest, Resumable
<1>7. RowIsPublished'
  BY <1>1, <1>3 DEF RowIsPublished, Resumable, Holds
<1>8. NothingEmptied'
  BY <1>1, EmptyIsNotWritten DEF NothingEmptied
<1>9. OthersHoldPending'
  BY DEF OthersHoldPending, Resumable, Holds
<1> QED BY <1>4, <1>5, <1>6, <1>7, <1>8, <1>9

\* Nobody merges a pull request while there is none to merge.
LEMMA PeopleLatest ==
  ASSUME CloudsAtRest, PeopleOnlyWrite, CloudInv, LatestFacts, preserved = {}, People
  PROVE  LatestFacts'
<1>1. CASE \E s \in Clouds, i \in Lines : EditCloud(s, i)
  BY <1>1, EditCloudLatest
<1>2. CASE \E i \in Lines, form \in {"plain", "rich"} : EditMain(i, form)
  BY <1>2, EditMainLatest
<1>3. ~ \/ \E s \in Clouds : ClearCloud(s)
        \/ DeleteMain
        \/ \E c \in committed : RevertMain(c)
  BY DEF PeopleOnlyWrite, ClearCloud, DeleteMain, RevertMain
<1>4. ~ \E p \in pulls : \E c \in p : MergePull(p, c)
  BY DEF LatestFacts, NothingEmptied
<1> QED BY <1>1, <1>2, <1>3, <1>4 DEF People

-----------------------------------------------------------------------------

\* What is preserved stays.
LEMMA PreservedStays ==
  ASSUME [Next]_vars
  PROVE  preserved \subseteq preserved'
<1>1. CASE UNCHANGED preserved
  BY <1>1
<1>2. CASE ConflictCommit
  BY <1>2 DEF ConflictCommit
<1> QED
  BY <1>1, <1>2
     DEF Next, vars, remoteVars, StartPass, PassStep, Detection, DetectGoogle, DetectMicrosoft,
         ReadMetadata, DetectFile, ExportGoogle, ExportMicrosoft, Export, MergeRefused, Oppose,
         Import, Rewrite, Checkpoint, Publishing, PublishFile, PublishGoogle, PublishMicrosoft,
         CheckGoogle, Keep, Stale, UpdateGoogle, RereadGoogle, ReplaceMicrosoft, RereadMicrosoft,
         Tag, Finalize, Conflicting, ConflictGoogle, ConflictMicrosoft, ConflictPull, ConflictSave,
         Fault, Crash, People, EditCloud, ClearCloud, EditMain, DeleteMain, RevertMain, MergePull

\* Every step keeps the invariant.
LEMMA NextLatestInv ==
  ASSUME CloudsAtRest, PeopleOnlyWrite, AllWritten, CloudInv, LatestInv, [Next]_vars
  PROVE  LatestInv'
<1> SUFFICES ASSUME preserved' = {} PROVE LatestFacts'
  BY DEF LatestInv
<1>0. preserved = {} /\ LatestFacts
  BY PreservedStays DEF LatestInv
<1>1. CASE UNCHANGED vars
  BY <1>0, <1>1, QuietLatest DEF QuietRow, LatestFacts, NothingEmptied, vars, remoteVars, recordVars,
                                 passVars, worldVars
<1>2. CASE Detection
  BY <1>0, <1>2, ReadingLatest, DetectFileLatest, MergeRefusedLatest, ImportLatest, RewriteLatest,
     CheckpointLatest
     DEF Detection
<1>3. CASE Publishing
  BY <1>0, <1>3, ReadingLatest, PublishFileLatest, CheckGoogleLatest, UpdateGoogleLatest,
     ReplaceMicrosoftLatest, FinalizeLatest
     DEF Publishing
<1>4. CASE Conflicting
  BY <1>0, <1>4, ReadingLatest, ConflictIsPreserved DEF Conflicting
<1>5. CASE StartPass
  BY <1>0, <1>5, ReadingLatest
<1>6. CASE Fault \/ Crash
  BY <1>0, <1>6, ReturnLatest DEF Fault, Crash, Raise, remoteVars, recordVars
<1>7. CASE People
  BY <1>0, <1>7, PeopleLatest
<1> QED BY <1>1, <1>2, <1>3, <1>4, <1>5, <1>6, <1>7 DEF Next, PassStep

\* Where the latest edits are, whatever fails and whoever commits to the branch during
\* a pass.
THEOREM LatestInvHolds ==
  ASSUME CloudsAtRest, PeopleOnlyWrite, AllWritten
  PROVE  Spec => []LatestInv
<1>1. CloudInv /\ LatestInv /\ [Next]_vars => LatestInv'
  BY NextLatestInv
<1> QED BY <1>1, CloudInvHolds, InitLatestInv, PTL DEF Spec

\* When nothing is left to do and no conflict was met, the file shows on each line the
\* last thing a person wrote there, whichever surface it was written on.
THEOREM LatestWins ==
  ASSUME CloudsAtRest, PeopleOnlyWrite, AllWritten
  PROVE  Spec => []LatestEditWins
<1>1. CloudInv /\ LatestInv => LatestEditWins
  <2> SUFFICES ASSUME CloudInv, LatestInv, Settled, AllSeen, preserved = {},
                      main \notin {Absent, Empty}, NEW i \in Lines
               PROVE  main[i].edit = last[i]
    BY DEF LatestEditWins
  <2>1. LatestFacts /\ ~Resumable
    BY DEF LatestInv, Settled
  <2>2. main = db.github_blob_sha /\ main # None
    BY Markers DEF AllSeen, GitHubChanged, CloudInv, PassInv, TypeOK
  <2>3. history # <<>>
    BY <2>1, <2>2 DEF LatestFacts, RowIsPublished
  <2>4. /\ main = db.base_markdown /\ main \in Written
        /\ \A s \in Clouds : Holds(s, main)
    BY <2>1, <2>2, <2>3 DEF LatestFacts, RowIsPublished, AllSeen
  <2>5. \A c \in Shown : c[i].edit = main[i].edit
    BY <2>4, HoldsEdits DEF Shown
  <2>6. \E c \in Shown : c[i].edit = last[i]
    BY <2>1, <2>4, EmptyIsNotWritten DEF LatestFacts, LinesAreShown, LatestIsShown, Shown
  <2> QED BY <2>5, <2>6
<1> QED BY <1>1, CloudInvHolds, LatestInvHolds, PTL
=============================================================================
