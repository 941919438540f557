------------------------- MODULE SyncSafety_proofs -------------------------
(***************************************************************************)
(* PassInv is inductive, so it holds of every document, whatever its length, *)
(* the clouds it is configured with, the switches, the edits people make    *)
(* and the calls that fail; and each step of a pass is a step of            *)
(* Publication, so documents are published as that module promises.         *)
(***************************************************************************)
EXTENDS SyncSafety, Markdown_proofs

USE DEF PassLabels, Statuses, Detecting, Moved, Diverting, Writing

\* None and Absent are no contents and no numbers, and differ.
LEMMA Markers ==
  /\ None \notin Content /\ Absent \notin Content /\ None # Absent
  /\ None \notin Nat
  BY MarkersAssumption

\* An empty file is a content.
LEMMA EmptyIsContent == Empty \in Content
  BY DEF Content

\* A series of texts of A is one of any larger set.
LEMMA SeqMonotone ==
  ASSUME NEW A, NEW B, A \subseteq B, NEW s \in Seq(A)
  PROVE  s \in Seq(B)
  OBVIOUS

\* The row ensure_document inserts is a well-formed record.
LEMMA NewRecordOK == NewRecord \in Record
  BY EmptyIsContent DEF NewRecord, Record, Pendings

\* A document nobody has synchronised yet satisfies the invariant.
LEMMA InitPassInv == Init => PassInv
<1> SUFFICES ASSUME Init PROVE PassInv
  OBVIOUS
<1> USE DEF Init
<1>1. TypeOK
  BY NewRecordOK, OriginalIsContent, EmptyIsContent DEF TypeOK, Pendings
<1>2. RecordIsCoherent /\ ReadIsCommitted
  BY Markers DEF RecordIsCoherent, ReadIsCommitted, NewRecord
<1>3. ChangedIsExported /\ BlobIsText /\ PhaseFitsRecord
  BY DEF ChangedIsExported, BlobIsText, PhaseFitsRecord
<1>4. history \in Seq(committed)
  OBVIOUS
<1> QED BY <1>1, <1>2, <1>3, <1>4 DEF PassInv

-----------------------------------------------------------------------------
(* The steps.                                                               *)

\* Reading a cloud's version changes nothing but what the pass has read.
LEMMA ReadMetadataStep ==
  ASSUME PassInv, NEW s \in {"google", "microsoft"},
         NEW here, NEW next, ReadMetadata(s, here, next),
         <<here, next>> \in {<<"detect_google", "detect_microsoft">>,
                             <<"detect_microsoft", "detect_file">>,
                             <<"publish_google", "publish_microsoft">>,
                             <<"publish_microsoft", "write_google">>,
                             <<"reread_google", "write_microsoft">>,
                             <<"reread_microsoft", "tag">>,
                             <<"conflict_google", "conflict_microsoft">>,
                             <<"conflict_microsoft", "conflict_commit">>}
  PROVE  PassInv'
<1> USE DEF ReadMetadata, GoTo, PassInv, remoteVars, recordVars, worldVars
<1>1. TypeOK'
  BY DEF TypeOK, Pendings
<1>2. RecordIsCoherent'
  BY DEF RecordIsCoherent
<1>3. ReadIsCommitted'
  BY DEF ReadIsCommitted
<1>4. ChangedIsExported'
  BY DEF ChangedIsExported, Changed
<1>5. BlobIsText'
  BY DEF BlobIsText, CurrentBlob
<1>6. PhaseFitsRecord'
  BY DEF PhaseFitsRecord, Resumable
<1>7. (history \in Seq(committed))'
  OBVIOUS
<1> QED BY <1>1, <1>2, <1>3, <1>4, <1>5, <1>6, <1>7 DEF PassInv

\* A pass that returns or dies leaves nothing behind.
LEMMA ReturnStep ==
  ASSUME PassInv, Return, UNCHANGED <<remoteVars, recordVars, last, edits>>,
         failures' \in Nat
  PROVE  PassInv'
<1> USE DEF Return, NoLocals, GoTo, PassInv, remoteVars, recordVars, worldVars
<1>1. TypeOK'
  BY DEF TypeOK, Pendings
<1>2. RecordIsCoherent'
  BY DEF RecordIsCoherent
<1>3. ReadIsCommitted'
  BY DEF ReadIsCommitted
<1>4. ChangedIsExported'
  BY DEF ChangedIsExported, Changed
<1>5. BlobIsText'
  BY DEF BlobIsText, CurrentBlob
<1>6. PhaseFitsRecord'
  BY DEF PhaseFitsRecord, Resumable
<1>7. (history \in Seq(committed))'
  OBVIOUS
<1> QED BY <1>1, <1>2, <1>3, <1>4, <1>5, <1>6, <1>7 DEF PassInv

\* A pass that raises leaves nothing behind but the status "error".
LEMMA RaiseStep ==
  ASSUME PassInv, Raise, UNCHANGED <<remoteVars, last, edits>>,
         failures' \in Nat
  PROVE  PassInv'
<1> USE DEF Raise, Return, NoLocals, GoTo, PassInv, remoteVars, recordVars, worldVars
<1>1. TypeOK'
  BY DEF TypeOK, Pendings, Record
<1>2. RecordIsCoherent'
  BY DEF RecordIsCoherent
<1>3. ReadIsCommitted'
  BY DEF ReadIsCommitted
<1>4. ChangedIsExported'
  BY DEF ChangedIsExported, Changed
<1>5. BlobIsText'
  BY DEF BlobIsText, CurrentBlob
<1>6. PhaseFitsRecord'
  BY DEF PhaseFitsRecord, Resumable
<1>7. (history \in Seq(committed))'
  OBVIOUS
<1> QED BY <1>1, <1>2, <1>3, <1>4, <1>5, <1>6, <1>7 DEF PassInv

\* A pass goes on with a publication exactly when one is pending.
LEMMA StartPassStep ==
  ASSUME PassInv, StartPass
  PROVE  PassInv'
<1> USE DEF StartPass, GoTo, PassInv, remoteVars, recordVars, worldVars
<1>1. TypeOK'
  BY DEF TypeOK, Pendings
<1>2. RecordIsCoherent'
  BY DEF RecordIsCoherent
<1>3. ReadIsCommitted'
  BY DEF ReadIsCommitted
<1>4. ChangedIsExported'
  BY DEF ChangedIsExported, Changed
<1>5. BlobIsText'
  BY DEF BlobIsText, CurrentBlob
<1>6. PhaseFitsRecord'
  BY DEF PhaseFitsRecord, Resumable
<1>7. (history \in Seq(committed))'
  OBVIOUS
<1> QED BY <1>1, <1>2, <1>3, <1>4, <1>5, <1>6, <1>7 DEF PassInv

\* The file a pass reads is a commit of its branch.
LEMMA DetectFileStep ==
  ASSUME PassInv, DetectFile
  PROVE  PassInv'
<1>1. CASE Return
  BY <1>1, ReturnStep DEF DetectFile, worldVars, PassInv, TypeOK
<1>2. CASE ~Return
  <2> USE <1>2 DEF DetectFile, GoTo, PassInv, remoteVars, recordVars, worldVars
  <2>1. TypeOK'
    BY DEF TypeOK, Pendings
  <2>2. RecordIsCoherent'
    BY DEF RecordIsCoherent
  <2>3. ReadIsCommitted'
    BY DEF ReadIsCommitted
  <2>4. ChangedIsExported'
    BY DEF ChangedIsExported, Changed
  <2>5. BlobIsText'
    BY DEF BlobIsText, CurrentBlob
  <2>6. PhaseFitsRecord'
    BY DEF PhaseFitsRecord, Resumable
  <2>7. (history \in Seq(committed))'
    OBVIOUS
  <2> QED BY <2>1, <2>2, <2>3, <2>4, <2>5, <2>6, <2>7 DEF PassInv
<1> QED BY <1>1, <1>2

\* After its export a changed cloud has a Markdown to merge.
LEMMA ExportStep ==
  ASSUME PassInv, NEW s, NEW here, NEW next, Export(s, here, next),
         <<s, here, next>> \in {<<"google", "export_google", "export_microsoft">>,
                                <<"microsoft", "export_microsoft", "import">>}
  PROVE  PassInv'
<1> USE DEF Export, GoTo, PassInv, remoteVars, recordVars, worldVars
<1>1. TypeOK'
  BY DEF TypeOK, Pendings
<1>2. RecordIsCoherent'
  BY DEF RecordIsCoherent
<1>3. ReadIsCommitted'
  BY DEF ReadIsCommitted
<1>4. ChangedIsExported'
  BY Markers, CloudsAssumption DEF ChangedIsExported, Changed, TypeOK
<1>5. BlobIsText'
  BY DEF BlobIsText, CurrentBlob
<1>6. PhaseFitsRecord'
  BY DEF PhaseFitsRecord, Resumable
<1>7. (history \in Seq(committed))'
  OBVIOUS
<1> QED BY <1>1, <1>2, <1>3, <1>4, <1>5, <1>6, <1>7 DEF PassInv

\* What is merged are contents, so the merge is one too.
LEMMA CandidatesAreContents ==
  ASSUME PassInv, pc = "import"
  PROVE  /\ Candidates \in SUBSET Content
         /\ Merged(db.base_markdown, Candidates) \in Content
<1>1. Candidates \in SUBSET Content
  BY DEF PassInv, TypeOK, ChangedIsExported, Candidates, GitHubChanged, Pendings
<1>2. db.base_markdown \in Content
  BY DEF PassInv, TypeOK, Record
<1> QED BY <1>1, <1>2, MergedIsContent

\* A refused merge opposes contents and stages nothing.
LEMMA MergeRefusedStep ==
  ASSUME PassInv, MergeRefused
  PROVE  PassInv'
<1> USE DEF MergeRefused, Oppose, GoTo, PassInv, remoteVars, recordVars, worldVars
<1>1. TypeOK'
  BY CandidatesAreContents DEF TypeOK, Pendings
<1>2. RecordIsCoherent'
  BY DEF RecordIsCoherent
<1>3. ReadIsCommitted'
  BY DEF ReadIsCommitted
<1>4. ChangedIsExported'
  BY DEF ChangedIsExported, Changed
<1>5. BlobIsText'
  BY DEF BlobIsText, CurrentBlob
<1>6. PhaseFitsRecord'
  BY DEF PhaseFitsRecord, Resumable
<1>7. (history \in Seq(committed))'
  OBVIOUS
<1> QED BY <1>1, <1>2, <1>3, <1>4, <1>5, <1>6, <1>7 DEF PassInv

\* A commit to the branch and what follows it: the text is in its history.
LEMMA CommitStep ==
  ASSUME PassInv, NEW c \in Content, NEW expected, NEW next,
         pc \in {"import", "rewrite"}, next \in {"rewrite", "checkpoint"},
         CommitOrRaise(c, expected, next),
         UNCHANGED <<preserved, pulls, tags, cloud, worldVars>>
  PROVE  PassInv'
<1>1. CASE ~CanCommit(expected)
  BY <1>1, RaiseStep DEF CommitOrRaise, worldVars, remoteVars, PassInv, TypeOK
<1>2. CASE CanCommit(expected)
  <2> USE <1>2 DEF CommitOrRaise, CommitToMain, GoTo, PassInv, remoteVars, recordVars, worldVars
  <2>1. TypeOK'
    BY DEF TypeOK, Pendings
  <2>2. RecordIsCoherent'
    BY DEF RecordIsCoherent
  <2>3. ReadIsCommitted'
    BY DEF ReadIsCommitted
  <2>4. ChangedIsExported'
    BY DEF ChangedIsExported, Changed
  <2>5. BlobIsText'
    BY Markers DEF BlobIsText, CurrentBlob
  <2>6. PhaseFitsRecord'
    BY DEF PhaseFitsRecord, Resumable
  <2>7. (history \in Seq(committed))'
    BY SeqMonotone DEF TypeOK
  <2> QED BY <2>1, <2>2, <2>3, <2>4, <2>5, <2>6, <2>7 DEF PassInv
<1> QED BY <1>1, <1>2

\* What the pass merges is a content, and a commit of the branch when staged.
LEMMA ImportStep ==
  ASSUME PassInv, Import
  PROVE  PassInv'
<1> DEFINE source == Merged(db.base_markdown, Candidates)
<1>0. pc = "import" /\ source \in Content
  BY CandidatesAreContents DEF Import
<1>1. CASE (IF file = Absent THEN Empty ELSE file) # source
  <2>1. CommitOrRaise(source, file, "rewrite")
    BY <1>1 DEF Import
  <2> QED BY <1>0, <2>1, CommitStep DEF Import
<1>2. CASE (IF file = Absent THEN Empty ELSE file) = source
  <2> HIDE DEF source
  <2>0. text' = source /\ pc' = "rewrite"
        /\ UNCHANGED <<main, committed, recordVars, meta, file, got, commit, opposed>>
        /\ UNCHANGED <<preserved, pulls, tags, cloud, worldVars>>
    BY <1>2 DEF Import, GoTo, source
  <2> USE <1>0, <1>2, <2>0 DEF PassInv, remoteVars, recordVars, worldVars
  <2>1. TypeOK'
    BY DEF TypeOK, Pendings
  <2>2. RecordIsCoherent'
    BY DEF RecordIsCoherent
  <2>3. ReadIsCommitted'
    BY DEF ReadIsCommitted
  <2>4. ChangedIsExported'
    BY DEF ChangedIsExported, Changed
  <2>5. BlobIsText'
    BY Markers DEF BlobIsText, CurrentBlob
  <2>6. PhaseFitsRecord'
    BY DEF PhaseFitsRecord, Resumable
  <2>7. (history \in Seq(committed))'
    OBVIOUS
  <2> QED BY <2>1, <2>2, <2>3, <2>4, <2>5, <2>6, <2>7 DEF PassInv
<1> QED BY <1>1, <1>2

\* What the AI provider answers is committed before it is staged.
LEMMA RewriteStep ==
  ASSUME PassInv, Rewrite
  PROVE  PassInv'
<1>0. pc = "rewrite" /\ text \in Content
  BY DEF Rewrite, PassInv, BlobIsText, TypeOK, Pendings
<1>1. PICK r \in IF AutoRewrite /\ \E s \in Clouds : Changed(s) THEN Rewrites(text) ELSE {text} :
          IF r # text
          THEN CommitOrRaise(r, CurrentBlob, "checkpoint")
          ELSE /\ GoTo("checkpoint")
               /\ UNCHANGED <<main, committed, recordVars, meta, file, got, text, commit, opposed>>
  BY DEF Rewrite
<1>2. r \in Content
  BY <1>0, RewritesAreContents
<1>3. CASE r # text
  BY <1>0, <1>1, <1>2, <1>3, CommitStep DEF Rewrite
<1>4. CASE r = text
  <2> USE <1>0, <1>1, <1>4 DEF Rewrite, GoTo, PassInv, remoteVars, recordVars, worldVars
  <2>1. TypeOK'
    BY DEF TypeOK, Pendings
  <2>2. RecordIsCoherent'
    BY DEF RecordIsCoherent
  <2>3. ReadIsCommitted'
    BY DEF ReadIsCommitted
  <2>4. ChangedIsExported'
    BY DEF ChangedIsExported, Changed
  <2>5. BlobIsText'
    BY DEF BlobIsText, CurrentBlob
  <2>6. PhaseFitsRecord'
    BY DEF PhaseFitsRecord, Resumable
  <2>7. (history \in Seq(committed))'
    OBVIOUS
  <2> QED BY <2>1, <2>2, <2>3, <2>4, <2>5, <2>6, <2>7 DEF PassInv
<1> QED BY <1>3, <1>4

\* The checkpoint stages one text, its blob and the next version number.
LEMMA CheckpointStep ==
  ASSUME PassInv, Checkpoint
  PROVE  PassInv'
<1>1. CASE CurrentBlob = Absent
  BY <1>1, RaiseStep DEF Checkpoint, worldVars, PassInv, TypeOK
<1>2. CASE CurrentBlob # Absent
  <2>a. /\ pc = "checkpoint" /\ CurrentBlob = text /\ text \in Content /\ text \in committed
        /\ (IF commit = None THEN main ELSE commit) \in Content \cup {Absent}
    BY <1>2, Markers DEF Checkpoint, PassInv, BlobIsText, CurrentBlob, ReadIsCommitted, TypeOK, Pendings
  <2>b. db' = Staged /\ NoLocals /\ pc' = "publish_file" /\ UNCHANGED <<history, remoteVars, worldVars>>
    BY <1>2 DEF Checkpoint, GoTo
  <2>c. PendingSurfaces(text) \in SUBSET Clouds
    BY DEF PendingSurfaces
  <2>d. db' \in Record
    <3> DEFINE c == IF commit = None THEN main ELSE commit
    <3>1. /\ db \in Record /\ meta \in [Clouds -> Nat \cup {None}]
          /\ text \in Pendings /\ c \in Pendings \cup {Absent}
          /\ db.version + 1 \in Nat \cup {None}
      BY <2>a DEF PassInv, TypeOK, Record, Pendings
    <3>2. db' = [db EXCEPT !.seen = meta, !.github_blob_sha = text, !.status = "syncing",
                          !.pending_markdown = text, !.pending_blob_sha = text,
                          !.pending_commit_sha = c, !.pending_version = db.version + 1,
                          !.pending_surfaces = PendingSurfaces(text)]
      BY <2>a, <2>b DEF Staged
    <3> HIDE DEF c
    <3> QED BY <2>c, <3>1, <3>2 DEF Record
  <2> USE <2>a, <2>b, <2>d DEF Staged, NoLocals, PassInv, remoteVars, recordVars, worldVars
  <2>1. TypeOK'
    BY DEF TypeOK, Pendings
  <2>2. RecordIsCoherent'
    BY Markers DEF RecordIsCoherent, Record, TypeOK
  <2>3. ReadIsCommitted'
    BY DEF ReadIsCommitted, TypeOK, Record
  <2>4. ChangedIsExported'
    BY DEF ChangedIsExported, Changed
  <2>5. BlobIsText'
    BY DEF BlobIsText, CurrentBlob
  <2>6. PhaseFitsRecord'
    BY Markers DEF PhaseFitsRecord, Resumable, Record, TypeOK
  <2>7. (history \in Seq(committed))'
    OBVIOUS
  <2> QED BY <2>1, <2>2, <2>3, <2>4, <2>5, <2>6, <2>7 DEF PassInv
<1> QED BY <1>1, <1>2

\* A publication whose file has moved opposes what is pending to the file.
LEMMA PublishFileStep ==
  ASSUME PassInv, PublishFile
  PROVE  PassInv'
<1>1. CASE db.pending_markdown = Empty \/ main = Absent
  BY <1>1, RaiseStep DEF PublishFile, worldVars, PassInv, TypeOK
<1>2. CASE ~(db.pending_markdown = Empty \/ main = Absent)
  <2>a. /\ pc = "publish_file" /\ main \in Content /\ main \in committed
        /\ db.pending_markdown \in Content \ {Empty}
    BY <1>2 DEF PublishFile, PassInv, PhaseFitsRecord, ReadIsCommitted, TypeOK, Record, Pendings
  <2>b. /\ file' = main /\ UNCHANGED <<recordVars, meta, remoteVars, worldVars, got, text, commit>>
        /\ \/ pc' = "conflict_google" /\ opposed' = {db.pending_markdown, main}
           \/ pc' = "publish_google" /\ opposed' = opposed
    BY <1>2 DEF PublishFile, GoTo, Oppose
  <2> USE <2>a, <2>b DEF PassInv, remoteVars, recordVars, worldVars
  <2>1. TypeOK'
    BY DEF TypeOK, Pendings
  <2>2. RecordIsCoherent'
    BY DEF RecordIsCoherent
  <2>3. ReadIsCommitted'
    BY DEF ReadIsCommitted
  <2>4. ChangedIsExported'
    BY DEF ChangedIsExported, Changed
  <2>5. BlobIsText'
    BY DEF BlobIsText, CurrentBlob
  <2>6. PhaseFitsRecord'
    BY Markers DEF PhaseFitsRecord, Resumable
  <2>7. (history \in Seq(committed))'
    OBVIOUS
  <2> QED BY <2>1, <2>2, <2>3, <2>4, <2>5, <2>6, <2>7 DEF PassInv
<1> QED BY <1>1, <1>2

\* A cloud that moved opposes its text to what is pending.
LEMMA StaleStep ==
  ASSUME PassInv, NEW s \in Clouds, NEW next, Stale(s, next),
         <<pc, next>> \in {<<"write_google", "write_microsoft">>, <<"write_microsoft", "tag">>}
  PROVE  PassInv'
<1> USE DEF Stale, Oppose, GoTo, PassInv, remoteVars, recordVars, worldVars
<1>1. TypeOK'
  BY DEF TypeOK, Pendings, Record, PhaseFitsRecord, Resumable
<1>2. RecordIsCoherent'
  BY DEF RecordIsCoherent
<1>3. ReadIsCommitted'
  BY DEF ReadIsCommitted
<1>4. ChangedIsExported'
  BY DEF ChangedIsExported, Changed
<1>5. BlobIsText'
  BY DEF BlobIsText, CurrentBlob
<1>6. PhaseFitsRecord'
  BY DEF PhaseFitsRecord, Resumable
<1>7. (history \in Seq(committed))'
  OBVIOUS
<1> QED BY <1>1, <1>2, <1>3, <1>4, <1>5, <1>6, <1>7 DEF PassInv

\* A step that only moves on keeps the invariant when the next stage asks no more.
LEMMA KeepStep ==
  ASSUME PassInv, NEW here, NEW next, Keep(here, next),
         <<here, next>> \in {<<"write_google", "write_microsoft">>, <<"write_microsoft", "tag">>}
  PROVE  PassInv'
<1> USE DEF Keep, GoTo, PassInv, remoteVars, recordVars, worldVars
<1>1. TypeOK'
  BY DEF TypeOK, Pendings
<1>2. RecordIsCoherent'
  BY DEF RecordIsCoherent
<1>3. ReadIsCommitted'
  BY DEF ReadIsCommitted
<1>4. ChangedIsExported'
  BY DEF ChangedIsExported, Changed
<1>5. BlobIsText'
  BY DEF BlobIsText, CurrentBlob
<1>6. PhaseFitsRecord'
  BY DEF PhaseFitsRecord, Resumable
<1>7. (history \in Seq(committed))'
  OBVIOUS
<1> QED BY <1>1, <1>2, <1>3, <1>4, <1>5, <1>6, <1>7 DEF PassInv

\* The version check before the upload to Google, with its two ways out.
LEMMA CheckGoogleStep ==
  ASSUME PassInv, CheckGoogle
  PROVE  PassInv'
<1>1. CASE Keep("write_google", "write_microsoft")
  BY <1>1, KeepStep
<1>2. CASE pc = "write_google" /\ "google" \in db.pending_surfaces /\ Stale("google", "write_microsoft")
  BY <1>2, StaleStep DEF PassInv, TypeOK, Record
<1>3. CASE Raise /\ UNCHANGED <<remoteVars, worldVars>>
  BY <1>3, RaiseStep DEF worldVars, PassInv, TypeOK
<1>4. CASE /\ pc = "write_google" /\ GoTo("update_google")
           /\ UNCHANGED <<recordVars, meta, file, got, text, commit, opposed>>
           /\ UNCHANGED <<remoteVars, worldVars>>
  <2> USE <1>4 DEF GoTo, PassInv, remoteVars, recordVars, worldVars
  <2>1. TypeOK'
    BY DEF TypeOK, Pendings
  <2>2. RecordIsCoherent'
    BY DEF RecordIsCoherent
  <2>3. ReadIsCommitted'
    BY DEF ReadIsCommitted
  <2>4. ChangedIsExported'
    BY DEF ChangedIsExported, Changed
  <2>5. BlobIsText'
    BY DEF BlobIsText, CurrentBlob
  <2>6. PhaseFitsRecord'
    BY DEF PhaseFitsRecord, Resumable
  <2>7. (history \in Seq(committed))'
    OBVIOUS
  <2> QED BY <2>1, <2>2, <2>3, <2>4, <2>5, <2>6, <2>7 DEF PassInv
<1> QED BY <1>1, <1>2, <1>3, <1>4 DEF CheckGoogle

\* An upload puts a content in the cloud.
LEMMA UploadType ==
  ASSUME PassInv, Resumable, NEW s, Upload(s)
  PROVE  cloud' \in [Clouds -> [text: Content, version: Nat]]
<1>1. db.pending_markdown \in Content
  BY DEF PassInv, TypeOK, Record, Resumable, Pendings
<1>2. CASE s \in Clouds
  <2>1. [text |-> Rendered(db.pending_markdown), version |-> cloud[s].version + 1]
          \in [text: Content, version: Nat]
    BY <1>1, <1>2, RenderedIsContent DEF PassInv, TypeOK
  <2> QED BY <2>1 DEF Upload, PassInv, TypeOK
<1>3. CASE s \notin Clouds
  BY <1>3 DEF Upload, PassInv, TypeOK
<1> QED BY <1>2, <1>3

\* The upload to Google changes the cloud alone.
LEMMA UpdateGoogleStep ==
  ASSUME PassInv, UpdateGoogle
  PROVE  PassInv'
<1>0. cloud' \in [Clouds -> [text: Content, version: Nat]]
  BY UploadType DEF UpdateGoogle, PassInv, PhaseFitsRecord
<1> USE <1>0 DEF UpdateGoogle, GoTo, PassInv, remoteVars, recordVars, worldVars
<1>1. TypeOK'
  BY DEF TypeOK, Pendings
<1>2. RecordIsCoherent'
  BY DEF RecordIsCoherent
<1>3. ReadIsCommitted'
  BY DEF ReadIsCommitted
<1>4. ChangedIsExported'
  BY DEF ChangedIsExported, Changed
<1>5. BlobIsText'
  BY DEF BlobIsText, CurrentBlob
<1>6. PhaseFitsRecord'
  BY DEF PhaseFitsRecord, Resumable
<1>7. (history \in Seq(committed))'
  OBVIOUS
<1> QED BY <1>1, <1>2, <1>3, <1>4, <1>5, <1>6, <1>7 DEF PassInv

\* The conditional upload to OneDrive, with its three ways out.
LEMMA ReplaceMicrosoftStep ==
  ASSUME PassInv, ReplaceMicrosoft
  PROVE  PassInv'
<1>0. db.pending_surfaces \subseteq Clouds
  BY DEF PassInv, TypeOK, Record
<1>1. CASE Keep("write_microsoft", "tag")
  BY <1>1, KeepStep
<1>2. CASE pc = "write_microsoft" /\ "microsoft" \in db.pending_surfaces /\ Stale("microsoft", "tag")
  BY <1>0, <1>2, StaleStep
<1>3. CASE Raise /\ UNCHANGED <<remoteVars, worldVars>>
  BY <1>3, RaiseStep DEF worldVars, PassInv, TypeOK
<1>4. CASE /\ pc = "write_microsoft" /\ "microsoft" \in db.pending_surfaces
           /\ Upload("microsoft") /\ GoTo("reread_microsoft")
           /\ UNCHANGED <<recordVars, meta, file, got, text, commit, opposed>>
           /\ UNCHANGED <<main, committed, preserved, pulls, tags, worldVars>>
  <2>0. cloud' \in [Clouds -> [text: Content, version: Nat]]
    BY <1>0, <1>4, UploadType DEF PassInv, PhaseFitsRecord
  <2> USE <1>4, <2>0 DEF GoTo, PassInv, remoteVars, recordVars, worldVars
  <2>1. TypeOK'
    BY DEF TypeOK, Pendings
  <2>2. RecordIsCoherent'
    BY DEF RecordIsCoherent
  <2>3. ReadIsCommitted'
    BY DEF ReadIsCommitted
  <2>4. ChangedIsExported'
    BY DEF ChangedIsExported, Changed
  <2>5. BlobIsText'
    BY DEF BlobIsText, CurrentBlob
  <2>6. PhaseFitsRecord'
    BY DEF PhaseFitsRecord, Resumable
  <2>7. (history \in Seq(committed))'
    OBVIOUS
  <2> QED BY <2>1, <2>2, <2>3, <2>4, <2>5, <2>6, <2>7 DEF PassInv
<1>5. \/ Keep("write_microsoft", "tag")
      \/ pc = "write_microsoft" /\ "microsoft" \in db.pending_surfaces /\ Stale("microsoft", "tag")
      \/ Raise /\ UNCHANGED <<remoteVars, worldVars>>
      \/ /\ pc = "write_microsoft" /\ "microsoft" \in db.pending_surfaces
         /\ Upload("microsoft") /\ GoTo("reread_microsoft")
         /\ UNCHANGED <<recordVars, meta, file, got, text, commit, opposed>>
         /\ UNCHANGED <<main, committed, preserved, pulls, tags, worldVars>>
  BY DEF ReplaceMicrosoft, remoteVars
<1> QED BY <1>1, <1>2, <1>3, <1>4, <1>5

\* The tag names the pending version and its commit.
LEMMA TagStep ==
  ASSUME PassInv, Tag
  PROVE  PassInv'
<1> USE DEF Tag, GoTo, PassInv, remoteVars, recordVars, worldVars
<1>1. TypeOK'
  BY DEF TypeOK, Pendings, Record
<1>2. RecordIsCoherent'
  BY DEF RecordIsCoherent
<1>3. ReadIsCommitted'
  BY DEF ReadIsCommitted
<1>4. ChangedIsExported'
  BY DEF ChangedIsExported, Changed
<1>5. BlobIsText'
  BY DEF BlobIsText, CurrentBlob
<1>6. PhaseFitsRecord'
  BY DEF PhaseFitsRecord, Resumable
<1>7. (history \in Seq(committed))'
  OBVIOUS
<1> QED BY <1>1, <1>2, <1>3, <1>4, <1>5, <1>6, <1>7 DEF PassInv

\* The finished row holds the published text and nothing pending.
LEMMA FinalizeStep ==
  ASSUME PassInv, Finalize
  PROVE  PassInv'
<1> DEFINE p == db.pending_markdown
<1>a. /\ p \in Content /\ p \in committed /\ file \in Content
      /\ db.pending_version = db.version + 1 /\ db.version \in Nat /\ db.version = Len(history)
  BY DEF Finalize, PassInv, PhaseFitsRecord, RecordIsCoherent, ReadIsCommitted, Resumable,
         TypeOK, Record, Pendings
<1>b. /\ db' = Completed /\ history' = Append(history, p) /\ NoLocals /\ pc' = "idle"
      /\ UNCHANGED <<remoteVars, worldVars>>
  BY DEF Finalize, Return, GoTo
<1>c. db' \in Record
  <2>1. db \in Record /\ meta \in [Clouds -> Nat \cup {None}] /\ db.pending_version \in Nat
        /\ p \in Pendings /\ file \in Pendings
    BY <1>a DEF PassInv, TypeOK, Pendings
  <2> HIDE DEF p
  <2>2. db' = [NoPending(db) EXCEPT !.base_markdown = p, !.canonical_hash = p, !.seen = meta,
                                    !.github_blob_sha = file, !.version = db.pending_version,
                                    !.status = "ready"]
    BY <1>b DEF Completed, p
  <2>3. NoPending(db) \in Record
    BY <2>1 DEF NoPending, Record, Pendings
  <2> QED BY <1>a, <2>1, <2>2, <2>3 DEF Record
<1>d. history' \in Seq(committed) /\ history' \in Seq(Pendings)
      /\ Len(history') = Len(history) + 1 /\ history'[Len(history')] = p /\ history' # <<>>
  BY <1>a, <1>b DEF PassInv, TypeOK, Pendings
<1>e. /\ db'.pending_markdown = None /\ db'.pending_blob_sha = None
      /\ db'.pending_version = None /\ db'.pending_commit_sha = None
      /\ db'.version = db.pending_version /\ db'.base_markdown = p
  BY <1>b DEF Completed, NoPending, PassInv, TypeOK, Record
<1> HIDE DEF p
<1> USE <1>b, <1>c, <1>d, <1>e DEF NoLocals, PassInv, remoteVars, recordVars, worldVars
<1>1. TypeOK'
  BY DEF TypeOK, Pendings
<1>2. RecordIsCoherent'
  BY <1>a DEF RecordIsCoherent
<1>3. ReadIsCommitted'
  BY DEF ReadIsCommitted
<1>4. ChangedIsExported'
  BY DEF ChangedIsExported, Changed
<1>5. BlobIsText'
  BY DEF BlobIsText, CurrentBlob
<1>6. PhaseFitsRecord'
  BY DEF PhaseFitsRecord, Resumable
<1>7. (history \in Seq(committed))'
  OBVIOUS
<1> QED BY <1>1, <1>2, <1>3, <1>4, <1>5, <1>6, <1>7 DEF PassInv

\* The conflict branch holds every opposed version from its commit on.
LEMMA ConflictCommitStep ==
  ASSUME PassInv, ConflictCommit
  PROVE  PassInv'
<1> USE DEF ConflictCommit, GoTo, PassInv, remoteVars, recordVars, worldVars
<1>1. TypeOK'
  BY DEF TypeOK, Pendings
<1>2. RecordIsCoherent'
  BY DEF RecordIsCoherent
<1>3. ReadIsCommitted'
  BY DEF ReadIsCommitted
<1>4. ChangedIsExported'
  BY DEF ChangedIsExported, Changed
<1>5. BlobIsText'
  BY DEF BlobIsText, CurrentBlob
<1>6. PhaseFitsRecord'
  BY DEF PhaseFitsRecord, Resumable
<1>7. (history \in Seq(committed))'
  OBVIOUS
<1> QED BY <1>1, <1>2, <1>3, <1>4, <1>5, <1>6, <1>7 DEF PassInv

\* The pull request is for versions that are on the conflict branch.
LEMMA ConflictPullStep ==
  ASSUME PassInv, ConflictPull
  PROVE  PassInv'
<1> USE DEF ConflictPull, GoTo, PassInv, remoteVars, recordVars, worldVars
<1>1. TypeOK'
  BY DEF TypeOK, Pendings
<1>2. RecordIsCoherent'
  BY DEF RecordIsCoherent
<1>3. ReadIsCommitted'
  BY DEF ReadIsCommitted
<1>4. ChangedIsExported'
  BY DEF ChangedIsExported, Changed
<1>5. BlobIsText'
  BY DEF BlobIsText, CurrentBlob
<1>6. PhaseFitsRecord'
  BY DEF PhaseFitsRecord, Resumable
<1>7. (history \in Seq(committed))'
  OBVIOUS
<1> QED BY <1>1, <1>2, <1>3, <1>4, <1>5, <1>6, <1>7 DEF PassInv

\* The row of a conflict has nothing pending, and its blob is still one.
LEMMA ConflictSaveStep ==
  ASSUME PassInv, ConflictSave
  PROVE  PassInv'
<1>b. /\ db' = Diverted /\ NoLocals /\ pc' = "idle"
      /\ UNCHANGED <<remoteVars, history, worldVars>>
  BY DEF ConflictSave, Return, GoTo
<1>c. db' \in Record
  <2>1. db \in Record /\ meta \in [Clouds -> Nat \cup {None}]
    BY DEF PassInv, TypeOK
  <2>2. NoPending(db) \in Record
    BY <2>1 DEF NoPending, Record, Pendings
  <2>3. (IF file = Absent THEN NoPending(db).github_blob_sha ELSE file) \in Pendings
    BY <2>2 DEF PassInv, TypeOK, Record, Pendings
  <2> QED BY <1>b, <2>1, <2>2, <2>3 DEF Diverted, Record
<1>d. /\ db'.pending_markdown = None /\ db'.pending_blob_sha = None
      /\ db'.pending_version = None /\ db'.pending_commit_sha = None
      /\ db'.version = db.version /\ db'.base_markdown = db.base_markdown
  BY <1>b DEF Diverted, NoPending, PassInv, TypeOK, Record
<1> USE <1>b, <1>c, <1>d DEF NoLocals, PassInv, remoteVars, recordVars, worldVars
<1>1. TypeOK'
  BY DEF TypeOK, Pendings
<1>2. RecordIsCoherent'
  BY DEF RecordIsCoherent
<1>3. ReadIsCommitted'
  BY DEF ReadIsCommitted
<1>4. ChangedIsExported'
  BY DEF ChangedIsExported, Changed
<1>5. BlobIsText'
  BY DEF BlobIsText, CurrentBlob
<1>6. PhaseFitsRecord'
  BY DEF PhaseFitsRecord, Resumable
<1>7. (history \in Seq(committed))'
  OBVIOUS
<1> QED BY <1>1, <1>2, <1>3, <1>4, <1>5, <1>6, <1>7 DEF PassInv

\* A failed call or a dead process leaves a row the next pass can go by.
LEMMA FailureStep ==
  ASSUME PassInv, Fault \/ Crash
  PROVE  PassInv'
<1>1. failures' \in Nat
  BY DEF Fault, Crash, PassInv, TypeOK
<1>2. CASE Fault
  BY <1>1, <1>2, RaiseStep DEF Fault
<1>3. CASE Crash
  BY <1>1, <1>3, ReturnStep DEF Crash
<1> QED BY <1>2, <1>3

-----------------------------------------------------------------------------
(* People.                                                                  *)

\* A person's edit puts a content in a cloud.
LEMMA EditCloudStep ==
  ASSUME PassInv, NEW s \in Clouds, NEW i \in Lines, EditCloud(s, i)
  PROVE  PassInv'
<1>b. Typed(cloud[s].text, i, edits + 1, "plain") \in Content
  BY TypedIsContent DEF PassInv, TypeOK, Forms
<1> USE <1>b DEF EditCloud, Edit, Touch, PassInv, recordVars, passVars
<1>1. TypeOK'
  BY DEF TypeOK, Pendings
<1>2. RecordIsCoherent'
  BY DEF RecordIsCoherent
<1>3. ReadIsCommitted'
  BY DEF ReadIsCommitted
<1>4. ChangedIsExported'
  BY DEF ChangedIsExported, Changed
<1>5. BlobIsText'
  BY DEF BlobIsText, CurrentBlob
<1>6. PhaseFitsRecord'
  BY DEF PhaseFitsRecord, Resumable
<1>7. (history \in Seq(committed))'
  OBVIOUS
<1> QED BY <1>1, <1>2, <1>3, <1>4, <1>5, <1>6, <1>7 DEF PassInv

\* An emptied cloud document is a content.
LEMMA ClearCloudStep ==
  ASSUME PassInv, NEW s \in Clouds, ClearCloud(s)
  PROVE  PassInv'
<1> USE DEF ClearCloud, Edit, passVars, PassInv, remoteVars, recordVars, worldVars
<1>1. TypeOK'
  BY EmptyIsContent DEF TypeOK, Pendings
<1>2. RecordIsCoherent'
  BY DEF RecordIsCoherent
<1>3. ReadIsCommitted'
  BY DEF ReadIsCommitted
<1>4. ChangedIsExported'
  BY DEF ChangedIsExported, Changed
<1>5. BlobIsText'
  BY DEF BlobIsText, CurrentBlob
<1>6. PhaseFitsRecord'
  BY DEF PhaseFitsRecord, Resumable
<1>7. (history \in Seq(committed))'
  OBVIOUS
<1> QED BY <1>1, <1>2, <1>3, <1>4, <1>5, <1>6, <1>7 DEF PassInv

\* Whatever a person commits to the branch joins its history.
LEMMA PersonCommitsStep ==
  ASSUME PassInv, NEW c \in Content, CommitToMain(c), UNCHANGED <<recordVars, passVars>>,
         UNCHANGED <<preserved, tags, cloud, failures>>, pulls' \subseteq pulls,
         last' \in [Lines -> Nat], edits' \in Nat
  PROVE  PassInv'
<1> USE DEF CommitToMain, PassInv, recordVars, passVars
<1>1. TypeOK'
  BY DEF TypeOK, Pendings
<1>2. RecordIsCoherent'
  BY DEF RecordIsCoherent
<1>3. ReadIsCommitted'
  BY DEF ReadIsCommitted
<1>4. ChangedIsExported'
  BY DEF ChangedIsExported, Changed
<1>5. BlobIsText'
  BY DEF BlobIsText, CurrentBlob
<1>6. PhaseFitsRecord'
  BY DEF PhaseFitsRecord, Resumable
<1>7. (history \in Seq(committed))'
  BY SeqMonotone DEF TypeOK
<1> QED BY <1>1, <1>2, <1>3, <1>4, <1>5, <1>6, <1>7 DEF PassInv

\* A person's commit to the branch joins its history.
LEMMA EditMainStep ==
  ASSUME PassInv, NEW i \in Lines, NEW form \in {"plain", "rich"}, EditMain(i, form)
  PROVE  PassInv'
<1>1. Typed(main, i, edits + 1, form) \in Content
  BY TypedIsContent DEF EditMain, PassInv, TypeOK, Forms
<1>2. last' \in [Lines -> Nat] /\ edits' \in Nat
  BY DEF EditMain, Edit, Touch, PassInv, TypeOK
<1> QED BY <1>1, <1>2, PersonCommitsStep DEF EditMain, Edit

\* A deleted file stays in the branch's history.
LEMMA DeleteMainStep ==
  ASSUME PassInv, DeleteMain
  PROVE  PassInv'
<1> USE DEF DeleteMain, Edit, passVars, PassInv, remoteVars, recordVars, worldVars
<1>1. TypeOK'
  BY DEF TypeOK, Pendings
<1>2. RecordIsCoherent'
  BY DEF RecordIsCoherent
<1>3. ReadIsCommitted'
  BY DEF ReadIsCommitted
<1>4. ChangedIsExported'
  BY DEF ChangedIsExported, Changed
<1>5. BlobIsText'
  BY DEF BlobIsText, CurrentBlob
<1>6. PhaseFitsRecord'
  BY DEF PhaseFitsRecord, Resumable
<1>7. (history \in Seq(committed))'
  OBVIOUS
<1> QED BY <1>1, <1>2, <1>3, <1>4, <1>5, <1>6, <1>7 DEF PassInv

\* A text put back on the branch is in its history, once more.
LEMMA RevertMainStep ==
  ASSUME PassInv, NEW c \in committed, RevertMain(c)
  PROVE  PassInv'
<1>1. c \in Content /\ c \in Written
  BY DEF RevertMain, PassInv, TypeOK, Content
<1>2. last' \in [Lines -> Nat] /\ edits' \in Nat
  BY <1>1 DEF RevertMain, Edit, PassInv, TypeOK, Written, Text
<1> QED BY <1>1, <1>2, PersonCommitsStep DEF RevertMain, Edit

\* A merged pull request is a commit to the branch.
LEMMA MergePullStep ==
  ASSUME PassInv, NEW p \in pulls, NEW c \in p, MergePull(p, c)
  PROVE  PassInv'
<1>1. c \in Content /\ c \in Written
  BY DEF MergePull, PassInv, TypeOK, Content
<1>2. last' \in [Lines -> Nat] /\ edits' \in Nat
  BY <1>1 DEF MergePull, Edit, PassInv, TypeOK, Written, Text
<1> QED BY <1>1, <1>2, PersonCommitsStep DEF MergePull, Edit

-----------------------------------------------------------------------------

\* Every step of the detection keeps the invariant.
LEMMA DetectionStep ==
  ASSUME PassInv, Detection
  PROVE  PassInv'
<1>1. CASE DetectGoogle \/ DetectMicrosoft
  BY <1>1, ReadMetadataStep DEF DetectGoogle, DetectMicrosoft
<1>2. CASE ExportGoogle \/ ExportMicrosoft
  BY <1>2, ExportStep DEF ExportGoogle, ExportMicrosoft
<1> QED
  BY <1>1, <1>2, DetectFileStep, MergeRefusedStep, ImportStep, RewriteStep, CheckpointStep
     DEF Detection

\* Every step of a publication keeps the invariant.
LEMMA PublishingStep ==
  ASSUME PassInv, Publishing
  PROVE  PassInv'
<1>1. CASE PublishGoogle \/ PublishMicrosoft \/ RereadGoogle \/ RereadMicrosoft
  BY <1>1, ReadMetadataStep DEF PublishGoogle, PublishMicrosoft, RereadGoogle, RereadMicrosoft
<1> QED
  BY <1>1, PublishFileStep, CheckGoogleStep, UpdateGoogleStep, ReplaceMicrosoftStep, TagStep,
     FinalizeStep
     DEF Publishing

\* Every step that records a conflict keeps the invariant.
LEMMA ConflictingStep ==
  ASSUME PassInv, Conflicting
  PROVE  PassInv'
<1>1. CASE ConflictGoogle \/ ConflictMicrosoft
  BY <1>1, ReadMetadataStep DEF ConflictGoogle, ConflictMicrosoft
<1> QED
  BY <1>1, ConflictCommitStep, ConflictPullStep, ConflictSaveStep DEF Conflicting

\* Whatever people do keeps the invariant.
LEMMA PeopleStep ==
  ASSUME PassInv, People
  PROVE  PassInv'
  BY EditCloudStep, ClearCloudStep, EditMainStep, DeleteMainStep, RevertMainStep, MergePullStep
     DEF People

\* Every step keeps the invariant.
LEMMA NextPassInv == PassInv /\ [Next]_vars => PassInv'
<1> SUFFICES ASSUME PassInv, [Next]_vars PROVE PassInv'
  OBVIOUS
<1>1. CASE UNCHANGED vars
  <2> USE <1>1 DEF vars, PassInv, remoteVars, recordVars, passVars, worldVars
  <2>1. TypeOK'
    BY DEF TypeOK, Pendings
  <2>2. RecordIsCoherent'
    BY DEF RecordIsCoherent
  <2>3. ReadIsCommitted'
    BY DEF ReadIsCommitted
  <2>4. ChangedIsExported'
    BY DEF ChangedIsExported, Changed
  <2>5. BlobIsText'
    BY DEF BlobIsText, CurrentBlob
  <2>6. PhaseFitsRecord'
    BY DEF PhaseFitsRecord, Resumable
  <2>7. (history \in Seq(committed))'
    OBVIOUS
  <2> QED BY <2>1, <2>2, <2>3, <2>4, <2>5, <2>6, <2>7 DEF PassInv
<1>2. CASE Next
  BY <1>2, StartPassStep, DetectionStep, PublishingStep, ConflictingStep, FailureStep, PeopleStep
     DEF Next, PassStep
<1> QED BY <1>1, <1>2

\* What each stage of a pass relies on is true, whatever fails and whenever.
THEOREM PassInvHolds == Spec => []PassInv
  BY InitPassInv, NextPassInv, PTL DEF Spec

\* The record, the locals and the remote state keep their types.
THEOREM TypeCorrect == Spec => []TypeOK
  BY PassInvHolds, PTL DEF PassInv

\* The row never mixes two publications, through any crash.
THEOREM RecordCoherent == Spec => []RecordIsCoherent
  BY PassInvHolds, PTL DEF PassInv

\* Every published text is a commit of the document's branch, even when people
\* edit every surface during the pass.
THEOREM PublishedCommitted == Spec => []PublishedIsCommitted
<1>1. PassInv => PublishedIsCommitted
  BY DEF PassInv, PublishedIsCommitted
<1> QED BY <1>1, PassInvHolds, PTL

-----------------------------------------------------------------------------
(* A pass keeps the promise of Publication.                                 *)

\* A document nobody has synchronised yet has nothing staged or published.
LEMMA InitPromise == Init => P!Init
  BY Markers, OriginalIsContent, EmptyIsContent DEF Init, P!Init, Resumable, NewRecord

\* A step that leaves the record and Git alone is no step of a publication.
LEMMA QuietPromise ==
  ASSUME UNCHANGED <<db, history, committed, preserved>>
  PROVE  UNCHANGED P!vars
  BY DEF P!vars, Resumable

\* A pass that raises is no step of a publication: what is staged stays.
LEMMA RaisePromise ==
  ASSUME PassInv, Raise, UNCHANGED <<committed, preserved>>
  PROVE  UNCHANGED P!vars
  BY DEF P!vars, Raise, Resumable, PassInv, TypeOK, Record

\* A commit to the branch, whoever makes it, is a Keep.
LEMMA KeepPromise ==
  ASSUME PassInv', UNCHANGED <<db, history, preserved>>, committed \subseteq committed'
  PROVE  P!Next
  BY DEF P!Next, P!Keep, Resumable, PassInv, TypeOK

\* A commit of the pass is a Keep, and a refused one is no step.
LEMMA CommitPromise ==
  ASSUME PassInv, PassInv', NEW c, NEW expected, NEW next, CommitOrRaise(c, expected, next),
         UNCHANGED <<preserved, pulls, tags, cloud, worldVars>>
  PROVE  [P!Next]_P!vars
<1>1. CASE CanCommit(expected)
  BY <1>1, KeepPromise DEF CommitOrRaise, CommitToMain, recordVars
<1>2. CASE ~CanCommit(expected)
  BY <1>2, RaisePromise DEF CommitOrRaise
<1> QED BY <1>1, <1>2

\* The checkpoint stages a text that is in Git, or nothing if the text is empty.
LEMMA CheckpointPromise ==
  ASSUME PassInv, PassInv', Checkpoint
  PROVE  [P!Next]_P!vars
<1>1. CASE CurrentBlob = Absent
  BY <1>1, RaisePromise DEF Checkpoint, remoteVars
<1>2. CASE CurrentBlob # Absent
  <2>1. db' = Staged /\ UNCHANGED <<history, committed, preserved>>
    BY <1>2 DEF Checkpoint, remoteVars
  <2>2. ~Resumable /\ db'.pending_markdown = text
    BY <2>1 DEF Checkpoint, Staged, PassInv, PhaseFitsRecord, TypeOK, Record
  <2>3. text # None /\ text \in committed
    BY <1>2, Markers DEF Checkpoint, PassInv, BlobIsText, CurrentBlob, ReadIsCommitted, TypeOK, Pendings
  <2>4. CASE text = Empty
    BY <2>1, <2>2, <2>4 DEF P!vars, Resumable
  <2>5. CASE text # Empty
    BY <2>1, <2>2, <2>3, <2>5 DEF P!Next, P!Stage, Resumable
  <2> QED BY <2>4, <2>5
<1> QED BY <1>1, <1>2

\* The finished row publishes what was staged.
LEMMA FinalizePromise ==
  ASSUME PassInv, Finalize
  PROVE  P!Next
<1>1. Resumable /\ db.pending_markdown # None
  BY DEF Finalize, PassInv, PhaseFitsRecord, Resumable
<1>2. db'.pending_markdown = None /\ history' = Append(history, db.pending_markdown)
      /\ UNCHANGED <<committed, preserved>>
  BY DEF Finalize, Completed, NoPending, PassInv, TypeOK, Record, remoteVars
<1> QED BY <1>1, <1>2 DEF P!Next, P!Publish, Resumable

\* What was pending when a conflict is recorded is on the conflict branch.
LEMMA ConflictSavePromise ==
  ASSUME PassInv, ConflictSave
  PROVE  [P!Next]_P!vars
<1>1. db'.pending_markdown = None /\ UNCHANGED <<history, committed, preserved>>
  BY DEF ConflictSave, Diverted, NoPending, PassInv, TypeOK, Record, remoteVars
<1>2. CASE Resumable
  <2>1. db.pending_markdown \in preserved /\ db.pending_markdown # None
    BY <1>2 DEF ConflictSave, PassInv, PhaseFitsRecord, Resumable
  <2> QED BY <1>1, <1>2, <2>1 DEF P!Next, P!Withdraw, Resumable
<1>3. CASE ~Resumable
  BY <1>1, <1>3 DEF P!vars, Resumable
<1> QED BY <1>2, <1>3

\* A commit to a conflict branch is a SetAside.
LEMMA ConflictCommitPromise ==
  ASSUME PassInv', ConflictCommit
  PROVE  P!Next
  BY DEF ConflictCommit, P!Next, P!SetAside, Resumable, recordVars, PassInv, TypeOK

\* The detection keeps the promise.
LEMMA DetectionPromise ==
  ASSUME PassInv, PassInv', Detection
  PROVE  [P!Next]_P!vars
<1>1. CASE Import \/ Rewrite
  <2>1. CASE UNCHANGED <<main, committed, recordVars>>
    BY <1>1, <2>1, QuietPromise DEF Import, Rewrite, recordVars
  <2>2. CASE ~UNCHANGED <<main, committed, recordVars>>
    BY <1>1, <2>2, CommitPromise DEF Import, Rewrite
  <2> QED BY <2>1, <2>2
<1>2. CASE Checkpoint
  BY <1>2, CheckpointPromise
<1>3. CASE ~(Import \/ Rewrite \/ Checkpoint)
  BY <1>3, QuietPromise
     DEF Detection, DetectGoogle, DetectMicrosoft, ReadMetadata, DetectFile, ExportGoogle,
         ExportMicrosoft, Export, MergeRefused, Oppose, remoteVars, recordVars
<1> QED BY <1>1, <1>2, <1>3

\* A publication keeps the promise.
LEMMA PublishingPromise ==
  ASSUME PassInv, Publishing
  PROVE  [P!Next]_P!vars
<1>1. CASE Raise /\ UNCHANGED <<committed, preserved>>
  BY <1>1, RaisePromise
<1>2. CASE Finalize
  BY <1>2, FinalizePromise
<1>3. CASE PublishFile \/ CheckGoogle \/ ReplaceMicrosoft
  BY <1>1, <1>3, QuietPromise
     DEF PublishFile, CheckGoogle, ReplaceMicrosoft, Stale, Keep, Oppose, remoteVars, recordVars
<1>4. CASE ~(PublishFile \/ CheckGoogle \/ ReplaceMicrosoft \/ Finalize)
  BY <1>4, QuietPromise
     DEF Publishing, PublishGoogle, PublishMicrosoft, RereadGoogle, RereadMicrosoft, ReadMetadata,
         UpdateGoogle, Tag, remoteVars, recordVars
<1> QED BY <1>2, <1>3, <1>4

\* The recording of a conflict keeps the promise.
LEMMA ConflictingPromise ==
  ASSUME PassInv, PassInv', Conflicting
  PROVE  [P!Next]_P!vars
<1>1. CASE ConflictGoogle \/ ConflictMicrosoft \/ ConflictPull
  BY <1>1, QuietPromise
     DEF ConflictGoogle, ConflictMicrosoft, ConflictPull, ReadMetadata, remoteVars, recordVars
<1> QED BY <1>1, ConflictCommitPromise, ConflictSavePromise DEF Conflicting

\* People keep the promise: they can only add to Git.
LEMMA PeoplePromise ==
  ASSUME PassInv', People
  PROVE  [P!Next]_P!vars
<1>1. UNCHANGED <<db, history, preserved>> /\ committed \subseteq committed'
  BY DEF People, EditCloud, ClearCloud, EditMain, DeleteMain, RevertMain, MergePull, Edit,
         CommitToMain, recordVars
<1> QED BY <1>1, KeepPromise

\* Every step keeps the promise or is none of it.
LEMMA NextPromise ==
  ASSUME PassInv, PassInv', [Next]_vars
  PROVE  [P!Next]_P!vars
<1>1. CASE UNCHANGED vars \/ StartPass \/ Crash
  BY <1>1, QuietPromise DEF vars, remoteVars, recordVars, StartPass, Crash
<1>2. CASE Fault
  BY <1>2, RaisePromise DEF Fault, remoteVars
<1> QED
  BY <1>1, <1>2, DetectionPromise, PublishingPromise, ConflictingPromise, PeoplePromise
     DEF Next, PassStep

\* Whatever fails and whoever edits meanwhile, versions are published one after
\* the other, each one a commit; and a version leaves the stage only by being
\* published or by being set aside on a conflict branch.
THEOREM PromiseKept == Spec => KeepsPromise
<1>1. PassInv /\ PassInv' /\ [Next]_vars => [P!Next]_P!vars
  BY NextPromise
<1> QED BY <1>1, InitPromise, PassInvHolds, PTL DEF Spec, KeepsPromise, P!Safety
=============================================================================
