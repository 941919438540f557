------------------------- MODULE SyncClouds_proofs -------------------------
(***************************************************************************)
(* CloudInv is inductive as long as nobody edits a cloud while a pass is     *)
(* under way, whatever else people do and whatever fails: no edit is then    *)
(* lost, and the surfaces come to hold the published text.                   *)
(***************************************************************************)
EXTENDS SyncSafety, SyncSafety_proofs

USE DEF PassLabels, Statuses, Detecting, Moved, Diverting, Writing, HasVersion, HasText, HasWritten

\* The two clouds a document may have, and what is recorded of them.
LEMMA CloudTypes ==
  ASSUME TypeOK, NEW s \in Clouds
  PROVE  /\ s \in {"google", "microsoft"}
         /\ cloud[s].version \in Nat /\ cloud[s].text \in Content
         /\ meta[s] \in Nat \cup {None} /\ db.seen[s] \in Nat \cup {None}
  BY CloudsAssumption DEF TypeOK, Record

\* What Git holds of a text it goes on holding.
LEMMA CapturedStays ==
  ASSUME committed \subseteq committed', preserved \subseteq preserved', NEW c, Captured(c)
  PROVE  Captured(c)'
  BY DEF Captured, InGit

\* Every edit of a text that was committed is in Git.
LEMMA CommittedIsCaptured ==
  ASSUME NEW c \in committed \cup preserved
  PROVE  Captured(c) /\ Captured(Rendered(c))
<1>1. CASE c = Empty
  BY <1>1 DEF Captured, Rendered
<1>2. CASE c # Empty
  <2>1. \A i \in Lines : InGit(i, c[i].edit)
    BY <1>2 DEF InGit
  <2>2. \A i \in Lines : Rendered(c)[i].edit = c[i].edit
    BY <1>2 DEF Rendered
  <2> QED BY <2>1, <2>2 DEF Captured
<1> QED BY <1>1, <1>2

\* A document nobody has synchronised yet satisfies the invariant.
LEMMA InitCloudInv == Init => CloudInv
<1> SUFFICES ASSUME Init PROVE CloudFacts
  BY InitPassInv DEF CloudInv
<1> USE Markers DEF Init, NewRecord
<1>1. VersionsAreOld
  BY DEF VersionsAreOld
<1>2. ReadIsCurrent
  BY DEF ReadIsCurrent
<1>3. EditsAreCaptured
  BY DEF EditsAreCaptured, Resumable
<1>4. CanonicalIsBase
  BY DEF CanonicalIsBase
<1>5. PendingReaches
  BY DEF PendingReaches, Resumable
<1>6. ReadyIsPublished
  BY DEF ReadyIsPublished
<1> QED BY <1>1, <1>2, <1>3, <1>4, <1>5, <1>6 DEF CloudFacts

-----------------------------------------------------------------------------
(* The steps.                                                               *)

\* Reading a cloud's version gives the one it has.
LEMMA ReadMetadataFacts ==
  ASSUME CloudInv, NEW s \in {"google", "microsoft"},
         NEW here, NEW next, ReadMetadata(s, here, next),
         <<here, next>> \in {<<"detect_google", "detect_microsoft">>,
                             <<"detect_microsoft", "detect_file">>,
                             <<"publish_google", "publish_microsoft">>,
                             <<"publish_microsoft", "write_google">>,
                             <<"reread_google", "write_microsoft">>,
                             <<"reread_microsoft", "tag">>,
                             <<"conflict_google", "conflict_microsoft">>,
                             <<"conflict_microsoft", "conflict_commit">>},
         s = "google" <=> here \in {"detect_google", "publish_google", "reread_google",
                                    "conflict_google"}
  PROVE  CloudFacts'
<1> USE CloudTypes DEF CloudInv, CloudFacts, PassInv, remoteVars, recordVars, worldVars, ReadMetadata, GoTo
<1>1. VersionsAreOld'
  BY DEF VersionsAreOld, TypeOK
<1>2. ReadIsCurrent'
  BY DEF ReadIsCurrent, Changed, TypeOK
<1>3. EditsAreCaptured'
  BY DEF EditsAreCaptured, Resumable, Captured, InGit, PhaseFitsRecord
<1>4. CanonicalIsBase'
  BY DEF CanonicalIsBase
<1>5. PendingReaches'
  BY DEF PendingReaches, Resumable, Holds
<1>6. ReadyIsPublished'
  BY DEF ReadyIsPublished, Repeated, Holds
<1> QED BY <1>1, <1>2, <1>3, <1>4, <1>5, <1>6 DEF CloudFacts

\* A pass that returns or dies leaves nothing behind.
LEMMA ReturnFacts ==
  ASSUME CloudInv, Return, UNCHANGED <<remoteVars, recordVars>>
  PROVE  CloudFacts'
<1> USE DEF CloudInv, CloudFacts, PassInv, remoteVars, recordVars, worldVars, Return, NoLocals, GoTo
<1>1. VersionsAreOld'
  BY DEF VersionsAreOld
<1>2. ReadIsCurrent'
  BY DEF ReadIsCurrent, Changed
<1>3. EditsAreCaptured'
  BY DEF EditsAreCaptured, Resumable, Captured, InGit
<1>4. CanonicalIsBase'
  BY DEF CanonicalIsBase
<1>5. PendingReaches'
  BY DEF PendingReaches, Resumable, Holds
<1>6. ReadyIsPublished'
  BY DEF ReadyIsPublished, Repeated, Holds
<1> QED BY <1>1, <1>2, <1>3, <1>4, <1>5, <1>6 DEF CloudFacts

\* A pass that raises leaves the status "error".
LEMMA RaiseFacts ==
  ASSUME CloudInv, Raise, UNCHANGED remoteVars
  PROVE  CloudFacts'
<1> USE DEF CloudInv, CloudFacts, PassInv, remoteVars, recordVars, worldVars, Raise, Return, NoLocals, GoTo, TypeOK, Record
<1>1. VersionsAreOld'
  BY DEF VersionsAreOld
<1>2. ReadIsCurrent'
  BY DEF ReadIsCurrent, Changed
<1>3. EditsAreCaptured'
  BY DEF EditsAreCaptured, Resumable, Captured, InGit
<1>4. CanonicalIsBase'
  BY DEF CanonicalIsBase
<1>5. PendingReaches'
  BY DEF PendingReaches, Resumable, Holds
<1>6. ReadyIsPublished'
  BY DEF ReadyIsPublished, Repeated, Holds
<1> QED BY <1>1, <1>2, <1>3, <1>4, <1>5, <1>6 DEF CloudFacts

\* A new pass has read nothing.
LEMMA StartPassFacts ==
  ASSUME CloudInv, StartPass
  PROVE  CloudFacts'
<1> USE DEF CloudInv, CloudFacts, PassInv, remoteVars, recordVars, worldVars, StartPass, GoTo
<1>1. VersionsAreOld'
  BY DEF VersionsAreOld
<1>2. ReadIsCurrent'
  BY DEF ReadIsCurrent, Changed
<1>3. EditsAreCaptured'
  BY DEF EditsAreCaptured, Resumable, Captured, InGit
<1>4. CanonicalIsBase'
  BY DEF CanonicalIsBase
<1>5. PendingReaches'
  BY DEF PendingReaches, Resumable, Holds
<1>6. ReadyIsPublished'
  BY DEF ReadyIsPublished, Repeated, Holds
<1> QED BY <1>1, <1>2, <1>3, <1>4, <1>5, <1>6 DEF CloudFacts

\* The pass has both versions when it reads the file.
LEMMA DetectFileFacts ==
  ASSUME CloudInv, DetectFile
  PROVE  CloudFacts'
<1>1. CASE Return
  BY <1>1, ReturnFacts DEF DetectFile
<1>2. CASE ~Return
  <2> USE <1>2 DEF CloudInv, CloudFacts, PassInv, remoteVars, recordVars, worldVars, DetectFile, GoTo
  <2>1. VersionsAreOld'
    BY DEF VersionsAreOld
  <2>2. ReadIsCurrent'
    BY DEF ReadIsCurrent, Changed
  <2>3. EditsAreCaptured'
    BY DEF EditsAreCaptured, Resumable, Captured, InGit
  <2>4. CanonicalIsBase'
    BY DEF CanonicalIsBase
  <2>5. PendingReaches'
    BY DEF PendingReaches, Resumable, Holds
  <2>6. ReadyIsPublished'
    BY DEF ReadyIsPublished, Repeated, Holds
  <2> QED BY <2>1, <2>2, <2>3, <2>4, <2>5, <2>6 DEF CloudFacts
<1> QED BY <1>1, <1>2

\* An export gives the text of the version that was read.
LEMMA ExportFacts ==
  ASSUME CloudInv, NEW s, NEW here, NEW next, Export(s, here, next),
         <<s, here, next>> \in {<<"google", "export_google", "export_microsoft">>,
                                <<"microsoft", "export_microsoft", "import">>}
  PROVE  CloudFacts'
<1> USE CloudTypes DEF CloudInv, CloudFacts, PassInv, remoteVars, recordVars, worldVars, Export, GoTo
<1>1. VersionsAreOld'
  BY DEF VersionsAreOld
<1>2. ReadIsCurrent'
  BY DEF ReadIsCurrent, Changed, TypeOK
<1>3. EditsAreCaptured'
  BY DEF EditsAreCaptured, Resumable, Captured, InGit
<1>4. CanonicalIsBase'
  BY DEF CanonicalIsBase
<1>5. PendingReaches'
  BY DEF PendingReaches, Resumable, Holds
<1>6. ReadyIsPublished'
  BY DEF ReadyIsPublished, Repeated, Holds
<1> QED BY <1>1, <1>2, <1>3, <1>4, <1>5, <1>6 DEF CloudFacts

\* A refused merge opposes every cloud that is not in Git yet.
LEMMA MergeRefusedFacts ==
  ASSUME CloudInv, MergeRefused
  PROVE  CloudFacts'
<1> USE CloudTypes DEF CloudInv, CloudFacts, PassInv, remoteVars, recordVars, worldVars, MergeRefused, Oppose, GoTo
<1>1. VersionsAreOld'
  BY DEF VersionsAreOld
<1>2. ReadIsCurrent'
  BY DEF ReadIsCurrent, Changed
<1>3. EditsAreCaptured'
  <2>1. ASSUME NEW s \in Clouds PROVE Captured(cloud[s].text) \/ cloud[s].text \in Candidates
    <3>1. CASE Changed(s)
      BY <3>1 DEF ReadIsCurrent, Candidates
    <3>2. CASE ~Changed(s)
      BY <3>2 DEF ReadIsCurrent, EditsAreCaptured, Changed
    <3> QED BY <3>1, <3>2
  <2> QED BY <2>1 DEF EditsAreCaptured, Resumable, Captured, InGit, PhaseFitsRecord
<1>4. CanonicalIsBase'
  BY DEF CanonicalIsBase
<1>5. PendingReaches'
  BY DEF PendingReaches, Resumable, Holds
<1>6. ReadyIsPublished'
  BY DEF ReadyIsPublished, Repeated, Holds
<1> QED BY <1>1, <1>2, <1>3, <1>4, <1>5, <1>6 DEF CloudFacts

\* The base of a merge is empty or a commit of the branch.
LEMMA BaseIsCaptured ==
  ASSUME CloudInv
  PROVE  db.base_markdown \in Content /\ Captured(db.base_markdown)
<1>1. CASE history = <<>>
  BY <1>1, EmptyIsContent DEF CloudInv, CloudFacts, CanonicalIsBase, Captured
<1>2. CASE history # <<>>
  <2>1. history \in Seq(committed) /\ db.base_markdown = history[Len(history)]
    BY <1>2 DEF CloudInv, PassInv, RecordIsCoherent
  <2>2. db.base_markdown \in committed
    BY <1>2, <2>1
  <2> QED BY <2>2, CommittedIsCaptured DEF CloudInv, PassInv, TypeOK
<1> QED BY <1>1, <1>2

\* Once the merge is committed, the edits of every cloud are in Git.
LEMMA MergeIsCaptured ==
  ASSUME CloudInv, pc = "import", ~Conflicted(db.base_markdown, Candidates),
         committed \subseteq committed', preserved \subseteq preserved',
         LET m == Merged(db.base_markdown, Candidates) IN m = Empty \/ m \in committed',
         cloud' = cloud, NEW s \in Clouds
  PROVE  Captured(cloud[s].text)'
<1> DEFINE b == db.base_markdown
           m == Merged(b, Candidates)
           c == cloud[s].text
<1>1. Captured(b) /\ b \in Content
  BY BaseIsCaptured
<1>2. CASE ~Changed(s)
  <2>1. Captured(c)
    BY <1>2 DEF CloudInv, CloudFacts, ReadIsCurrent, EditsAreCaptured, Changed
  <2> QED BY <2>1, CapturedStays DEF Captured, InGit
<1>3. CASE Changed(s)
  <2>1. c \in Candidates
    BY <1>3 DEF CloudInv, CloudFacts, ReadIsCurrent, Candidates
  <2>2. CASE c = Empty
    BY <2>2 DEF Captured
  <2>3. CASE c # Empty
    <3>1. ASSUME NEW i \in Lines
          PROVE  \E k \in committed' \cup preserved' : k # Empty /\ k[i].edit = c[i].edit
      <4>1. \/ m # Empty /\ m[i] = c[i]
            \/ b # Empty /\ b[i] = c[i]
        <5> HIDE DEF m, c, b
        <5> QED BY <1>1, <2>1, <2>3, CandidatesAreContents, MergeDropsNothing DEF m, CloudInv, b
      <4>2. CASE m # Empty /\ m[i] = c[i]
        BY <4>2
      <4>3. CASE b # Empty /\ b[i] = c[i]
        BY <1>1, <4>3 DEF Captured, InGit
      <4> QED BY <4>1, <4>2, <4>3
    <3> QED BY <3>1 DEF Captured, InGit
  <2> QED BY <2>2, <2>3
<1> QED BY <1>2, <1>3

\* The merge of a pass, committed or already the file.
LEMMA ImportFacts ==
  ASSUME CloudInv, Import
  PROVE  CloudFacts'
<1> DEFINE source == Merged(db.base_markdown, Candidates)
<1>0. pc = "import" /\ ~Conflicted(db.base_markdown, Candidates) /\ cloud' = cloud
      /\ UNCHANGED <<preserved, pulls, tags>>
  BY DEF Import
<1>1. CASE Raise /\ UNCHANGED remoteVars
  BY <1>1, RaiseFacts
<1>2. CASE /\ pc' = "rewrite" /\ committed \subseteq committed'
           /\ source = Empty \/ source \in committed'
           /\ UNCHANGED <<recordVars, meta, file, got, opposed>>
  <2>a. \A s \in Clouds : Captured(cloud[s].text)'
    BY <1>0, <1>2, MergeIsCaptured
  <2> HIDE DEF source
  <2> USE <1>0, <1>2 DEF CloudInv, CloudFacts, PassInv, recordVars
  <2>1. VersionsAreOld'
    BY DEF VersionsAreOld
  <2>2. ReadIsCurrent'
    BY DEF ReadIsCurrent, Changed
  <2>3. EditsAreCaptured'
    BY <2>a DEF EditsAreCaptured
  <2>4. CanonicalIsBase'
    BY DEF CanonicalIsBase
  <2>5. PendingReaches'
    BY DEF PendingReaches, Resumable, Holds
  <2>6. ReadyIsPublished'
    BY DEF ReadyIsPublished, Repeated, Holds
  <2> QED BY <2>1, <2>2, <2>3, <2>4, <2>5, <2>6 DEF CloudFacts
<1>3. CASE (IF file = Absent THEN Empty ELSE file) # source
  <2>1. CommitOrRaise(source, file, "rewrite")
    BY <1>3 DEF Import
  <2> QED BY <1>0, <1>1, <1>2, <2>1 DEF CommitOrRaise, CommitToMain, GoTo, remoteVars
<1>4. CASE (IF file = Absent THEN Empty ELSE file) = source
  <2>1. /\ pc' = "rewrite"
        /\ UNCHANGED <<main, committed, recordVars, meta, file, got, commit, opposed>>
    BY <1>4 DEF Import, GoTo
  <2>2. source = Empty \/ source \in committed
    BY <1>4 DEF CloudInv, PassInv, ReadIsCommitted
  <2> QED BY <1>2, <2>1, <2>2
<1> QED BY <1>3, <1>4

\* The AI provider's text is committed beside the one it was made from.
LEMMA RewriteFacts ==
  ASSUME CloudInv, Rewrite
  PROVE  CloudFacts'
<1>0. pc = "rewrite" /\ UNCHANGED <<preserved, pulls, tags, cloud>>
  BY DEF Rewrite
<1>1. CASE Raise /\ UNCHANGED remoteVars
  BY <1>1, RaiseFacts
<1>2. CASE /\ pc' = "checkpoint" /\ committed \subseteq committed'
           /\ UNCHANGED <<recordVars, meta, file, got, opposed>>
  <2> USE <1>0, <1>2 DEF CloudInv, CloudFacts, PassInv, recordVars
  <2>1. VersionsAreOld'
    BY DEF VersionsAreOld
  <2>2. ReadIsCurrent'
    BY DEF ReadIsCurrent, Changed
  <2>3. EditsAreCaptured'
    BY DEF EditsAreCaptured, Resumable, Captured, InGit
  <2>4. CanonicalIsBase'
    BY DEF CanonicalIsBase
  <2>5. PendingReaches'
    BY DEF PendingReaches, Resumable, Holds
  <2>6. ReadyIsPublished'
    BY DEF ReadyIsPublished, Repeated, Holds
  <2> QED BY <2>1, <2>2, <2>3, <2>4, <2>5, <2>6 DEF CloudFacts
<1> QED BY <1>0, <1>1, <1>2 DEF Rewrite, CommitOrRaise, CommitToMain, GoTo, remoteVars

\* The checkpoint leaves out just the clouds that hold the text already.
LEMMA CheckpointFacts ==
  ASSUME CloudInv, Checkpoint
  PROVE  CloudFacts'
<1>1. CASE CurrentBlob = Absent
  BY <1>1, RaiseFacts DEF Checkpoint
<1>2. CASE CurrentBlob # Absent
  <2>a. /\ pc = "checkpoint" /\ pc' = "publish_file" /\ NoLocals
        /\ UNCHANGED <<history, remoteVars>>
    BY <1>2 DEF Checkpoint, GoTo
  <2>b. /\ db'.seen = meta /\ db'.status = "syncing" /\ db'.pending_markdown = text
        /\ db'.pending_surfaces = PendingSurfaces(text)
        /\ db'.base_markdown = db.base_markdown /\ db'.canonical_hash = db.canonical_hash
    <3>1. db' = Staged /\ db \in Record
      BY <1>2 DEF Checkpoint, CloudInv, PassInv, TypeOK
    <3> QED BY <3>1 DEF Staged, Record
  <2>c. ASSUME NEW s \in Clouds, WrittenTo(s), s \notin PendingSurfaces(text),
               text # db.canonical_hash
        PROVE  cloud[s].text = text
    <3>1. SurfaceHash(s) = text
      BY <2>c DEF PendingSurfaces, WrittenTo
    <3> QED BY <2>a, <2>c, <3>1 DEF SurfaceHash, CloudInv, CloudFacts, ReadIsCurrent
  <2> USE <2>a, <2>b DEF NoLocals, CloudInv, CloudFacts, PassInv, remoteVars
  <2>1. VersionsAreOld'
    BY DEF VersionsAreOld
  <2>2. ReadIsCurrent'
    BY DEF ReadIsCurrent, Changed
  <2>3. EditsAreCaptured'
    BY DEF EditsAreCaptured, Resumable, Captured, InGit
  <2>4. CanonicalIsBase'
    BY DEF CanonicalIsBase
  <2>5. PendingReaches'
    BY <2>c DEF PendingReaches, Resumable, Holds
  <2>6. ReadyIsPublished'
    BY DEF ReadyIsPublished, Repeated, Holds
  <2> QED BY <2>1, <2>2, <2>3, <2>4, <2>5, <2>6 DEF CloudFacts
<1> QED BY <1>1, <1>2

\* A publication that goes on has read the file that is pending.
LEMMA PublishFileFacts ==
  ASSUME CloudInv, PublishFile
  PROVE  CloudFacts'
<1>1. CASE db.pending_markdown = Empty \/ main = Absent
  BY <1>1, RaiseFacts DEF PublishFile
<1>2. CASE ~(db.pending_markdown = Empty \/ main = Absent)
  <2>a. db.pending_blob_sha = db.pending_markdown
    BY DEF CloudInv, PassInv, RecordIsCoherent
  <2> USE <1>2, <2>a DEF CloudInv, CloudFacts, PassInv, remoteVars, recordVars, worldVars, PublishFile, Oppose, GoTo
  <2>1. VersionsAreOld'
    BY DEF VersionsAreOld
  <2>2. ReadIsCurrent'
    BY DEF ReadIsCurrent, Changed
  <2>3. EditsAreCaptured'
    BY DEF EditsAreCaptured, Resumable, Captured, InGit
  <2>4. CanonicalIsBase'
    BY DEF CanonicalIsBase
  <2>5. PendingReaches'
    BY DEF PendingReaches, Resumable, Holds
  <2>6. ReadyIsPublished'
    BY DEF ReadyIsPublished, Repeated, Holds
  <2> QED BY <2>1, <2>2, <2>3, <2>4, <2>5, <2>6 DEF CloudFacts
<1> QED BY <1>1, <1>2

\* A cloud that moved opposes its text, or holds the pending one.
LEMMA StaleFacts ==
  ASSUME CloudInv, NEW s \in Clouds, NEW next, Stale(s, next),
         <<s, pc, next>> \in {<<"google", "write_google", "write_microsoft">>,
                              <<"microsoft", "write_microsoft", "tag">>}
  PROVE  CloudFacts'
<1> USE CloudTypes DEF CloudInv, CloudFacts, PassInv, remoteVars, recordVars, worldVars, Stale, Oppose, GoTo
<1>1. VersionsAreOld'
  BY DEF VersionsAreOld
<1>2. ReadIsCurrent'
  BY DEF ReadIsCurrent, Changed
<1>3. EditsAreCaptured'
  BY DEF EditsAreCaptured, Resumable, Captured, InGit, PhaseFitsRecord
<1>4. CanonicalIsBase'
  BY DEF CanonicalIsBase
<1>5. PendingReaches'
  BY DEF PendingReaches, Resumable, Holds
<1>6. ReadyIsPublished'
  BY DEF ReadyIsPublished, Repeated, Holds
<1> QED BY <1>1, <1>2, <1>3, <1>4, <1>5, <1>6 DEF CloudFacts

\* A cloud that is not pending is left alone.
LEMMA KeepFacts ==
  ASSUME CloudInv, NEW s, NEW here, NEW next, Keep(here, next), s \notin db.pending_surfaces,
         <<s, here, next>> \in {<<"google", "write_google", "write_microsoft">>,
                                <<"microsoft", "write_microsoft", "tag">>}
  PROVE  CloudFacts'
<1> USE CloudTypes DEF CloudInv, CloudFacts, PassInv, remoteVars, recordVars, worldVars, Keep, GoTo
<1>1. VersionsAreOld'
  BY DEF VersionsAreOld
<1>2. ReadIsCurrent'
  BY DEF ReadIsCurrent, Changed
<1>3. EditsAreCaptured'
  BY DEF EditsAreCaptured, Resumable, Captured, InGit
<1>4. CanonicalIsBase'
  BY DEF CanonicalIsBase
<1>5. PendingReaches'
  BY DEF PendingReaches, Resumable, Holds
<1>6. ReadyIsPublished'
  BY DEF ReadyIsPublished, Repeated, Holds
<1> QED BY <1>1, <1>2, <1>3, <1>4, <1>5, <1>6 DEF CloudFacts

\* The version check before the upload to Google, with its two ways out.
LEMMA CheckGoogleFacts ==
  ASSUME CloudInv, CheckGoogle
  PROVE  CloudFacts'
<1>1. CASE "google" \notin db.pending_surfaces /\ Keep("write_google", "write_microsoft")
  BY <1>1, KeepFacts
<1>2. CASE pc = "write_google" /\ "google" \in db.pending_surfaces /\ Stale("google", "write_microsoft")
  BY <1>2, StaleFacts DEF CloudInv, PassInv, TypeOK, Record
<1>3. CASE Raise /\ UNCHANGED <<remoteVars, worldVars>>
  BY <1>3, RaiseFacts
<1>4. CASE /\ pc = "write_google" /\ GoTo("update_google")
           /\ UNCHANGED <<recordVars, meta, file, got, text, commit, opposed>>
           /\ UNCHANGED <<remoteVars, worldVars>>
  <2> USE <1>4 DEF CloudInv, CloudFacts, PassInv, remoteVars, recordVars, worldVars, GoTo
  <2>1. VersionsAreOld'
    BY DEF VersionsAreOld
  <2>2. ReadIsCurrent'
    BY DEF ReadIsCurrent, Changed
  <2>3. EditsAreCaptured'
    BY DEF EditsAreCaptured, Resumable, Captured, InGit
  <2>4. CanonicalIsBase'
    BY DEF CanonicalIsBase
  <2>5. PendingReaches'
    BY DEF PendingReaches, Resumable, Holds
  <2>6. ReadyIsPublished'
    BY DEF ReadyIsPublished, Repeated, Holds
  <2> QED BY <2>1, <2>2, <2>3, <2>4, <2>5, <2>6 DEF CloudFacts
<1> QED BY <1>1, <1>2, <1>3, <1>4 DEF CheckGoogle

\* A cloud that gets another text gets a version that was not seen.
LEMMA MovedCloud ==
  ASSUME CloudInv, NEW s, NEW c,
         cloud' = [cloud EXCEPT ![s] = [text |-> c, version |-> cloud[s].version + 1]]
  PROVE  /\ \A t \in Clouds : t # s => cloud'[t] = cloud[t]
         /\ s \in Clouds => cloud'[s].text = c
         /\ \A t \in Clouds : cloud'[t].version \in Nat /\ cloud'[t].version >= cloud[t].version
         /\ UNCHANGED db => \A t \in Clouds : cloud'[t].version = db.seen[t] => cloud'[t] = cloud[t]
<1>b. \A t \in Clouds :
        \/ t # s /\ cloud'[t] = cloud[t]
        \/ t = s /\ cloud'[t] = [text |-> c, version |-> cloud[t].version + 1]
  BY DEF CloudInv, PassInv, TypeOK
<1>c. \A t \in Clouds : cloud'[t].version \in Nat /\ cloud'[t].version >= cloud[t].version
  BY <1>b, CloudTypes DEF CloudInv, PassInv
<1>d. \A t \in Clouds : cloud'[t].version = db.seen[t] => cloud'[t] = cloud[t]
  BY <1>b, CloudTypes, Markers DEF CloudInv, PassInv, CloudFacts, VersionsAreOld
<1> QED BY <1>b, <1>c, <1>d

\* An upload puts the pending text, which is in Git, under a version of its own.
LEMMA UploadFacts ==
  ASSUME CloudInv, NEW s, Upload(s), UNCHANGED <<main, committed, preserved, recordVars>>,
         UNCHANGED <<meta, file>>,
         <<s, pc, pc'>> \in {<<"google", "update_google", "reread_google">>,
                             <<"microsoft", "write_microsoft", "reread_microsoft">>}
  PROVE  CloudFacts'
<1> DEFINE r == Rendered(db.pending_markdown)
<1>a. Resumable /\ db.pending_markdown \in committed /\ Captured(r)
  BY CommittedIsCaptured DEF CloudInv, PassInv, PhaseFitsRecord, ReadIsCommitted, Resumable
<1>0. cloud' = [cloud EXCEPT ![s] = [text |-> r, version |-> cloud[s].version + 1]]
  BY DEF Upload
<1> HIDE DEF r
<1>m. /\ \A t \in Clouds : t # s => cloud'[t] = cloud[t]
      /\ s \in Clouds => cloud'[s].text = r
      /\ \A t \in Clouds : cloud'[t].version \in Nat /\ cloud'[t].version >= cloud[t].version
      /\ \A t \in Clouds : cloud'[t].version = db.seen[t] => cloud'[t] = cloud[t]
  BY <1>0, MovedCloud DEF recordVars
<1>s. s \in {"google", "microsoft"} /\ db' = db /\ history' = history /\ main' = main
      /\ committed' = committed /\ preserved' = preserved /\ meta' = meta /\ file' = file
  BY DEF recordVars
<1>h. s \in Clouds => Holds(s, db.pending_markdown)'
  BY <1>m, <1>s DEF Holds, r
<1> USE CloudTypes, <1>s DEF CloudInv, CloudFacts, PassInv
<1>1. VersionsAreOld'
  <2>1. ASSUME NEW t \in Clouds, NEW v \in {db.seen[t], meta[t]}, v # None
        PROVE  v <= cloud'[t].version
    <3>1. v \in Nat /\ v <= cloud[t].version /\ cloud[t].version \in Nat
      BY <2>1 DEF VersionsAreOld
    <3> QED BY <1>m, <3>1
  <2> QED BY <2>1 DEF VersionsAreOld
<1>2. ReadIsCurrent'
  BY DEF ReadIsCurrent, Changed
<1>3. EditsAreCaptured'
  BY <1>a, <1>m DEF EditsAreCaptured, Resumable, Captured, InGit
<1>4. CanonicalIsBase'
  BY DEF CanonicalIsBase
<1>5. PendingReaches'
  <2>1. \A t \in Clouds : t # s => (cloud'[t] = cloud[t] /\ (pc' \in HasWritten(t) <=> pc \in HasWritten(t)))
    BY <1>m
  <2> QED BY <1>a, <1>h, <2>1 DEF PendingReaches, Resumable, Holds
<1>6. ReadyIsPublished'
  BY <1>m DEF ReadyIsPublished, Repeated, Holds
<1> QED BY <1>1, <1>2, <1>3, <1>4, <1>5, <1>6 DEF CloudFacts

\* The upload to Google.
LEMMA UpdateGoogleFacts ==
  ASSUME CloudInv, UpdateGoogle
  PROVE  CloudFacts'
  BY UploadFacts DEF UpdateGoogle, GoTo

\* The conditional upload to OneDrive, with its three ways out.
LEMMA ReplaceMicrosoftFacts ==
  ASSUME CloudInv, ReplaceMicrosoft
  PROVE  CloudFacts'
<1>0. db.pending_surfaces \subseteq Clouds
  BY DEF CloudInv, PassInv, TypeOK, Record
<1>1. CASE "microsoft" \notin db.pending_surfaces /\ Keep("write_microsoft", "tag")
  BY <1>1, KeepFacts
<1>2. CASE pc = "write_microsoft" /\ "microsoft" \in db.pending_surfaces /\ Stale("microsoft", "tag")
  BY <1>0, <1>2, StaleFacts
<1>3. CASE Raise /\ UNCHANGED <<remoteVars, worldVars>>
  BY <1>3, RaiseFacts
<1>4. CASE /\ pc = "write_microsoft" /\ Upload("microsoft") /\ pc' = "reread_microsoft"
           /\ UNCHANGED <<recordVars, meta, file, got, text, commit, opposed>>
           /\ UNCHANGED <<main, committed, preserved, pulls, tags, worldVars>>
  BY <1>4, UploadFacts
<1>5. \/ "microsoft" \notin db.pending_surfaces /\ Keep("write_microsoft", "tag")
      \/ pc = "write_microsoft" /\ "microsoft" \in db.pending_surfaces /\ Stale("microsoft", "tag")
      \/ Raise /\ UNCHANGED <<remoteVars, worldVars>>
      \/ /\ pc = "write_microsoft" /\ Upload("microsoft") /\ pc' = "reread_microsoft"
         /\ UNCHANGED <<recordVars, meta, file, got, text, commit, opposed>>
         /\ UNCHANGED <<main, committed, preserved, pulls, tags, worldVars>>
  BY DEF ReplaceMicrosoft, GoTo, remoteVars
<1> QED BY <1>1, <1>2, <1>3, <1>4, <1>5

\* A tag changes neither the clouds nor the record.
LEMMA TagFacts ==
  ASSUME CloudInv, Tag
  PROVE  CloudFacts'
<1> USE DEF CloudInv, CloudFacts, PassInv, remoteVars, recordVars, worldVars, Tag, GoTo
<1>1. VersionsAreOld'
  BY DEF VersionsAreOld
<1>2. ReadIsCurrent'
  BY DEF ReadIsCurrent, Changed
<1>3. EditsAreCaptured'
  BY DEF EditsAreCaptured, Resumable, Captured, InGit
<1>4. CanonicalIsBase'
  BY DEF CanonicalIsBase
<1>5. PendingReaches'
  BY DEF PendingReaches, Resumable, Holds
<1>6. ReadyIsPublished'
  BY DEF ReadyIsPublished, Repeated, Holds
<1> QED BY <1>1, <1>2, <1>3, <1>4, <1>5, <1>6 DEF CloudFacts

\* The finished row is the one of a version that every written cloud holds.
LEMMA FinalizeFacts ==
  ASSUME CloudInv, Finalize
  PROVE  CloudFacts'
<1> DEFINE p == db.pending_markdown
<1>a. /\ pc = "finalize" /\ pc' = "idle" /\ NoLocals /\ UNCHANGED remoteVars
      /\ history' = Append(history, p)
  BY DEF Finalize, Return, GoTo
<1>b. /\ db'.seen = meta /\ db'.status = "ready" /\ db'.pending_markdown = None
      /\ db'.base_markdown = p /\ db'.canonical_hash = p /\ db'.github_blob_sha = p
  <2>1. db' = Completed /\ db \in Record /\ file = p
    BY <1>a DEF Finalize, CloudInv, CloudFacts, CanonicalIsBase, PassInv, TypeOK
  <2> HIDE DEF p
  <2> QED BY <2>1 DEF Completed, NoPending, Record, p
<1>c. /\ Resumable /\ history \in Seq(Pendings) /\ p \in Pendings
      /\ history' # <<>> /\ Len(history') = Len(history) + 1 /\ history'[Len(history')] = p
      /\ history # <<>> => history'[Len(history)] = history[Len(history)]
  BY <1>a DEF CloudInv, PassInv, PhaseFitsRecord, TypeOK, Record
<1>d. ASSUME ~Repeated', NEW s \in Clouds, WrittenTo(s) PROVE Holds(s, p)
  <2>1. p # db.canonical_hash
    <3>1. CASE history = <<>>
      BY <1>c, <3>1 DEF CloudInv, CloudFacts, CanonicalIsBase, Resumable
    <3>2. CASE history # <<>>
      <4>1. Len(history) > 0 /\ Len(history) \in Nat
        BY <1>c, <3>2
      <4>2. history'[Len(history)] # p
        BY <1>c, <1>d, <4>1 DEF Repeated
      <4>3. db.canonical_hash = history[Len(history)]
        BY <3>2 DEF CloudInv, CloudFacts, CanonicalIsBase, PassInv, RecordIsCoherent
      <4> QED BY <1>c, <3>2, <4>2, <4>3
    <3> QED BY <3>1, <3>2
  <2> QED BY <1>a, <1>c, <1>d, <2>1, CloudTypes DEF CloudInv, CloudFacts, PendingReaches, PassInv
<1> HIDE DEF p
<1> USE <1>a, <1>b DEF NoLocals, CloudInv, CloudFacts, PassInv, remoteVars
<1>1. VersionsAreOld'
  BY DEF VersionsAreOld
<1>2. ReadIsCurrent'
  BY DEF ReadIsCurrent, Changed
<1>3. EditsAreCaptured'
  BY <1>c DEF EditsAreCaptured, Resumable, Captured, InGit
<1>4. CanonicalIsBase'
  BY <1>c DEF CanonicalIsBase
<1>5. PendingReaches'
  BY DEF PendingReaches, Resumable, Holds
<1>6. ReadyIsPublished'
  BY <1>c, <1>d DEF ReadyIsPublished, Holds
<1> QED BY <1>1, <1>2, <1>3, <1>4, <1>5, <1>6 DEF CloudFacts

\* On its branch, everything that is opposed is in Git.
LEMMA ConflictCommitFacts ==
  ASSUME CloudInv, ConflictCommit
  PROVE  CloudFacts'
<1>a. \A s \in Clouds : Captured(cloud[s].text)'
  <2>1. ASSUME NEW s \in Clouds PROVE Captured(cloud[s].text)'
    <3>1. CASE Captured(cloud[s].text)
      BY <3>1 DEF ConflictCommit, Captured, InGit
    <3>2. CASE cloud[s].text \in opposed
      BY <3>2 DEF ConflictCommit, Captured, InGit
    <3> QED BY <3>1, <3>2 DEF ConflictCommit, CloudInv, CloudFacts, EditsAreCaptured
  <2> QED BY <2>1
<1> USE DEF CloudInv, CloudFacts, PassInv, recordVars, ConflictCommit, GoTo
<1>1. VersionsAreOld'
  BY DEF VersionsAreOld
<1>2. ReadIsCurrent'
  BY DEF ReadIsCurrent, Changed
<1>3. EditsAreCaptured'
  BY <1>a DEF EditsAreCaptured
<1>4. CanonicalIsBase'
  BY DEF CanonicalIsBase
<1>5. PendingReaches'
  BY DEF PendingReaches, Resumable, Holds
<1>6. ReadyIsPublished'
  BY DEF ReadyIsPublished, Repeated, Holds
<1> QED BY <1>1, <1>2, <1>3, <1>4, <1>5, <1>6 DEF CloudFacts

\* A pull request changes neither the clouds nor the record.
LEMMA ConflictPullFacts ==
  ASSUME CloudInv, ConflictPull
  PROVE  CloudFacts'
<1> USE DEF CloudInv, CloudFacts, PassInv, remoteVars, recordVars, worldVars, ConflictPull, GoTo
<1>1. VersionsAreOld'
  BY DEF VersionsAreOld
<1>2. ReadIsCurrent'
  BY DEF ReadIsCurrent, Changed
<1>3. EditsAreCaptured'
  BY DEF EditsAreCaptured, Resumable, Captured, InGit
<1>4. CanonicalIsBase'
  BY DEF CanonicalIsBase
<1>5. PendingReaches'
  BY DEF PendingReaches, Resumable, Holds
<1>6. ReadyIsPublished'
  BY DEF ReadyIsPublished, Repeated, Holds
<1> QED BY <1>1, <1>2, <1>3, <1>4, <1>5, <1>6 DEF CloudFacts

\* The row of a conflict has seen just what is in Git.
LEMMA ConflictSaveFacts ==
  ASSUME CloudInv, ConflictSave
  PROVE  CloudFacts'
<1>a. /\ pc = "conflict_save" /\ pc' = "idle" /\ NoLocals /\ UNCHANGED <<remoteVars, history>>
  BY DEF ConflictSave, Return, GoTo
<1>b. /\ db'.seen = meta /\ db'.status = "conflict" /\ db'.pending_markdown = None
      /\ db'.base_markdown = db.base_markdown /\ db'.canonical_hash = db.canonical_hash
  <2>1. db' = Diverted /\ db \in Record
    BY DEF ConflictSave, CloudInv, PassInv, TypeOK
  <2> QED BY <2>1 DEF Diverted, NoPending, Record
<1> USE <1>a, <1>b DEF NoLocals, CloudInv, CloudFacts, PassInv, remoteVars
<1>1. VersionsAreOld'
  BY DEF VersionsAreOld
<1>2. ReadIsCurrent'
  BY DEF ReadIsCurrent, Changed
<1>3. EditsAreCaptured'
  BY DEF EditsAreCaptured, Resumable, Captured, InGit
<1>4. CanonicalIsBase'
  BY DEF CanonicalIsBase
<1>5. PendingReaches'
  BY DEF PendingReaches, Resumable, Holds
<1>6. ReadyIsPublished'
  BY DEF ReadyIsPublished, Repeated, Holds
<1> QED BY <1>1, <1>2, <1>3, <1>4, <1>5, <1>6 DEF CloudFacts

\* A failed call or a dead process.
LEMMA FailureFacts ==
  ASSUME CloudInv, Fault \/ Crash
  PROVE  CloudFacts'
  BY RaiseFacts, ReturnFacts DEF Fault, Crash

-----------------------------------------------------------------------------
(* People.                                                                  *)

\* Whatever becomes of a cloud between passes has a version nobody has seen.
LEMMA CloudMovesFacts ==
  ASSUME CloudInv, Settled, NEW s \in Clouds, NEW c,
         cloud' = [cloud EXCEPT ![s] = [text |-> c, version |-> cloud[s].version + 1]],
         UNCHANGED <<main, committed, preserved, recordVars, passVars>>
  PROVE  CloudFacts'
<1>m. /\ \A t \in Clouds : t # s => cloud'[t] = cloud[t]
      /\ \A t \in Clouds : cloud'[t].version \in Nat /\ cloud'[t].version >= cloud[t].version
      /\ \A t \in Clouds : cloud'[t].version = db.seen[t] => cloud'[t] = cloud[t]
  BY MovedCloud DEF recordVars
<1> USE CloudTypes DEF Settled, CloudInv, CloudFacts, PassInv, recordVars, passVars
<1>1. VersionsAreOld'
  BY <1>m, Markers DEF VersionsAreOld, TypeOK
<1>2. ReadIsCurrent'
  BY DEF ReadIsCurrent, Changed
<1>3. EditsAreCaptured'
  BY <1>m DEF EditsAreCaptured, Resumable, Captured, InGit
<1>4. CanonicalIsBase'
  BY DEF CanonicalIsBase
<1>5. PendingReaches'
  BY <1>m DEF PendingReaches, Resumable, Holds
<1>6. ReadyIsPublished'
  BY <1>m DEF ReadyIsPublished, Repeated, Holds
<1> QED BY <1>1, <1>2, <1>3, <1>4, <1>5, <1>6 DEF CloudFacts

\* The branch does not matter to the clouds, and Git only grows.
LEMMA BranchMovesFacts ==
  ASSUME CloudInv, UNCHANGED <<preserved, cloud, recordVars, passVars>>, committed \subseteq committed'
  PROVE  CloudFacts'
<1> USE DEF CloudInv, CloudFacts, PassInv, remoteVars, recordVars, worldVars, passVars
<1>1. VersionsAreOld'
  BY DEF VersionsAreOld
<1>2. ReadIsCurrent'
  BY DEF ReadIsCurrent, Changed
<1>3. EditsAreCaptured'
  BY DEF EditsAreCaptured, Resumable, Captured, InGit
<1>4. CanonicalIsBase'
  BY DEF CanonicalIsBase
<1>5. PendingReaches'
  BY DEF PendingReaches, Resumable, Holds
<1>6. ReadyIsPublished'
  BY DEF ReadyIsPublished, Repeated, Holds
<1> QED BY <1>1, <1>2, <1>3, <1>4, <1>5, <1>6 DEF CloudFacts

\* Whatever people do, unless they edit a cloud during a pass.
LEMMA PeopleFacts ==
  ASSUME CloudsAtRest, CloudInv, People
  PROVE  CloudFacts'
<1>1. CASE \E s \in Clouds, i \in Lines : EditCloud(s, i)
  BY <1>1, CloudMovesFacts DEF EditCloud, Edit, CloudsAtRest
<1>2. CASE \E s \in Clouds : ClearCloud(s)
  BY <1>2, CloudMovesFacts DEF ClearCloud, Edit, CloudsAtRest
<1>3. CASE \/ \E i \in Lines, form \in {"plain", "rich"} : EditMain(i, form)
           \/ DeleteMain
           \/ \E c \in committed : RevertMain(c)
           \/ \E p \in pulls : \E c \in p : MergePull(p, c)
  BY <1>3, BranchMovesFacts DEF EditMain, DeleteMain, RevertMain, MergePull, Edit, CommitToMain
<1> QED BY <1>1, <1>2, <1>3 DEF People

-----------------------------------------------------------------------------

\* Every step of the detection keeps the invariant.
LEMMA DetectionFacts ==
  ASSUME CloudInv, Detection
  PROVE  CloudFacts'
<1>1. CASE DetectGoogle \/ DetectMicrosoft
  BY <1>1, ReadMetadataFacts DEF DetectGoogle, DetectMicrosoft
<1>2. CASE ExportGoogle \/ ExportMicrosoft
  BY <1>2, ExportFacts DEF ExportGoogle, ExportMicrosoft
<1> QED
  BY <1>1, <1>2, DetectFileFacts, MergeRefusedFacts, ImportFacts, RewriteFacts, CheckpointFacts
     DEF Detection

\* Every step of a publication keeps the invariant.
LEMMA PublishingFacts ==
  ASSUME CloudInv, Publishing
  PROVE  CloudFacts'
<1>1. CASE PublishGoogle \/ PublishMicrosoft \/ RereadGoogle \/ RereadMicrosoft
  BY <1>1, ReadMetadataFacts DEF PublishGoogle, PublishMicrosoft, RereadGoogle, RereadMicrosoft
<1> QED
  BY <1>1, PublishFileFacts, CheckGoogleFacts, UpdateGoogleFacts, ReplaceMicrosoftFacts, TagFacts,
     FinalizeFacts
     DEF Publishing

\* Every step that records a conflict keeps the invariant.
LEMMA ConflictingFacts ==
  ASSUME CloudInv, Conflicting
  PROVE  CloudFacts'
<1>1. CASE ConflictGoogle \/ ConflictMicrosoft
  BY <1>1, ReadMetadataFacts DEF ConflictGoogle, ConflictMicrosoft
<1> QED
  BY <1>1, ConflictCommitFacts, ConflictPullFacts, ConflictSaveFacts DEF Conflicting

\* Every step keeps the invariant.
LEMMA NextCloudInv ==
  ASSUME CloudsAtRest, CloudInv, [Next]_vars
  PROVE  CloudInv'
<1>0. PassInv'
  BY NextPassInv DEF CloudInv
<1>1. CASE UNCHANGED vars
  <2> USE <1>1 DEF CloudInv, CloudFacts, PassInv, remoteVars, recordVars, worldVars, vars, passVars
  <2>1. VersionsAreOld'
    BY DEF VersionsAreOld
  <2>2. ReadIsCurrent'
    BY DEF ReadIsCurrent, Changed
  <2>3. EditsAreCaptured'
    BY DEF EditsAreCaptured, Resumable, Captured, InGit
  <2>4. CanonicalIsBase'
    BY DEF CanonicalIsBase
  <2>5. PendingReaches'
    BY DEF PendingReaches, Resumable, Holds
  <2>6. ReadyIsPublished'
    BY DEF ReadyIsPublished, Repeated, Holds
  <2> QED BY <1>0, <2>1, <2>2, <2>3, <2>4, <2>5, <2>6 DEF CloudFacts
<1>2. CASE Next
  <2>1. CloudFacts'
    BY <1>2, StartPassFacts, DetectionFacts, PublishingFacts, ConflictingFacts, FailureFacts,
       PeopleFacts
       DEF Next, PassStep
  <2> QED BY <1>0, <2>1 DEF CloudInv
<1> QED BY <1>1, <1>2

\* What the clouds stand for, whatever fails and whoever commits to the branch.
THEOREM CloudInvHolds ==
  ASSUME CloudsAtRest
  PROVE  Spec => []CloudInv
<1>1. CloudInv /\ [Next]_vars => CloudInv'
  BY NextCloudInv
<1> QED BY <1>1, InitCloudInv, PTL DEF Spec

\* A version that counts as seen has no edit that Git does not hold: a pass never
\* forgets what it has not merged or preserved.
THEOREM SeenCaptured ==
  ASSUME CloudsAtRest
  PROVE  Spec => []SeenIsCaptured
<1>1. CloudInv => SeenIsCaptured
  BY DEF CloudInv, CloudFacts, EditsAreCaptured, SeenIsCaptured
<1> QED BY <1>1, CloudInvHolds, PTL

\* A version is tagged only once every cloud it had to reach holds it.
THEOREM TaggedEverywhere ==
  ASSUME CloudsAtRest
  PROVE  Spec => []TaggedIsEverywhere
<1>1. CloudInv => TaggedIsEverywhere
  BY CloudTypes DEF CloudInv, CloudFacts, PassInv, PendingReaches, TaggedIsEverywhere, TypeOK, Record
<1> QED BY <1>1, CloudInvHolds, PTL

\* Where nothing is left to do the file and the clouds hold the published text,
\* unless it is the text of the version before.
THEOREM SurfacesConverge ==
  ASSUME CloudsAtRest
  PROVE  Spec => []Converged
<1>1. CloudInv => Converged
  <2> SUFFICES ASSUME CloudInv, AtRest, ~Repeated PROVE Everywhere
    BY DEF Converged
  <2>0. main = db.github_blob_sha /\ db.status = "ready" /\ main # None
        /\ \A s \in Clouds : cloud[s].version = db.seen[s]
    BY Markers DEF AtRest, AllSeen, GitHubChanged, CloudInv, PassInv, TypeOK
  <2> QED BY <2>0 DEF Everywhere, CloudInv, CloudFacts, ReadyIsPublished
<1> QED BY <1>1, CloudInvHolds, PTL

\* Only an upload changes a cloud while nobody edits, and whatever it replaces is in
\* Git by then.
LEMMA UploadsReplaceCaptured ==
  ASSUME CloudInv, [Next]_vars, NEW s \in Clouds, cloud'[s] # cloud[s], edits' = edits
  PROVE  Captured(cloud[s].text)
<1>1. UpdateGoogle \/ ReplaceMicrosoft
  BY DEF Next, vars, remoteVars, StartPass, PassStep, Detection, DetectGoogle, DetectMicrosoft,
         ReadMetadata, DetectFile, ExportGoogle, ExportMicrosoft, Export, MergeRefused, Oppose,
         Import, Rewrite, Checkpoint, Publishing, PublishFile, PublishGoogle, PublishMicrosoft,
         CheckGoogle, Keep, Stale, RereadGoogle, RereadMicrosoft, Tag, Finalize, Conflicting,
         ConflictGoogle, ConflictMicrosoft, ConflictCommit, ConflictPull, ConflictSave, Fault,
         Crash, People, EditCloud, ClearCloud, EditMain, DeleteMain, RevertMain, MergePull, Edit,
         CloudInv, PassInv, TypeOK
<1>2. pc \in Writing
  BY <1>1 DEF UpdateGoogle, ReplaceMicrosoft, Keep
<1> QED BY <1>2 DEF CloudInv, CloudFacts, EditsAreCaptured, PassInv, PhaseFitsRecord

\* No upload loses an edit.
THEOREM OverwritesCaptured ==
  ASSUME CloudsAtRest
  PROVE  Spec => OverwritesOnlyCaptured
<1>1. CloudInv /\ [Next]_vars =>
        [\A s \in Clouds :
            (cloud'[s] # cloud[s] /\ edits' = edits) => Captured(cloud[s].text)]_vars
  BY UploadsReplaceCaptured
<1> QED BY <1>1, CloudInvHolds, PTL DEF Spec, OverwritesOnlyCaptured
=============================================================================
