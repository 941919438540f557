---------------------------- MODULE SyncDocument ----------------------------
(***************************************************************************)
(* SyncManager for one document: the passes that bring GitHub, Google Docs  *)
(* and Word Online to the same text, the record they keep in the SQLite     *)
(* state store, and the people, failures and crashes around them.          *)
(*                                                                         *)
(* A pass is a sequence of remote calls; one action is one call with the    *)
(* computation up to the next.  Between two of them anything may happen:    *)
(* a person edits a surface, the call fails (the exception ends the pass    *)
(* and sync_document marks the document in error) or the process dies and   *)
(* starts again with nothing but the record.  An asyncio lock and the       *)
(* instance lock keep the passes over a document from overlapping.         *)
(*                                                                         *)
(* A definition whose name ends in Slip is a mistake somebody could make in *)
(* the definition after it.  No specification uses it: model checking with  *)
(* a slip in place shows that a property can fail.                         *)
(***************************************************************************)
EXTENDS Markdown, Sequences, FiniteSets

CONSTANTS
    None,           \* Python's None, SQL's NULL
    Absent,         \* the Markdown file is not on the branch
    Clouds,         \* the cloud surfaces the document is configured with
    GoogleReplace,  \* google.write_mode is "replace"
    AutoRewrite,    \* ai.enabled and ai.auto_rewrite_human_changes
    CreateTags,     \* versioning.create_tags
    Racing,         \* the surfaces people edit while a pass is under way
    Habits,         \* what else people do: see the environment below
    MaxEdits,       \* bound: edits people make
    MaxFailures     \* bound: failed calls and crashes

ASSUME CloudsAssumption == Clouds \subseteq {"google", "microsoft"}
ASSUME SwitchesAssumption == {GoogleReplace, AutoRewrite, CreateTags} \subseteq BOOLEAN
ASSUME MarkersAssumption == None # Absent /\ {None, Absent} \cap (Content \cup Nat) = {}
ASSUME BoundsAssumption == MaxEdits \in Nat /\ MaxFailures \in Nat

VARIABLES
    main,       \* the Markdown file on the document's branch
    committed,  \* every text that was ever there: its Git history
    preserved,  \* every text committed to a conflict branch
    pulls,      \* the open conflict pull requests, each the texts it opposes
    tags,       \* the version tags, each with the text of the commit it names
    cloud,      \* what each cloud surface holds and its version or eTag
    db,         \* the document's row in the state store
    history,    \* the texts published so far (what the row's version counts)
    pc,         \* the next remote call of the pass, or "idle"
    meta,       \* the cloud versions the pass has read
    file,       \* the GitHub file the pass has read
    got,        \* the Markdown the pass has exported from each cloud
    text,       \* source_markdown, then final_markdown
    commit,     \* commit_sha: the text of the commit the pass made, or None
    opposed,    \* the versions of the conflict the pass is recording
    last,       \* for each line, the latest edit a person made to it
    edits,      \* how many edits people have made
    failures    \* how many calls and processes have failed

remoteVars == <<main, committed, preserved, pulls, tags, cloud>>
recordVars == <<db, history>>
passVars == <<pc, meta, file, got, text, commit, opposed>>
worldVars == <<last, edits, failures>>
vars == <<remoteVars, recordVars, passVars, worldVars>>

-----------------------------------------------------------------------------
(* The record.                                                              *)

Pendings == Content \cup {None}
Statuses == {"ready", "syncing", "conflict", "error"}

Record ==
    [base_markdown: Content,
     canonical_hash: Pendings,
     seen: [Clouds -> Nat \cup {None}],     \* google_version, microsoft_version
     github_blob_sha: Pendings,
     version: Nat,
     status: Statuses,
     pending_markdown: Pendings,
     pending_blob_sha: Pendings,
     pending_commit_sha: Pendings \cup {Absent},
     pending_version: Nat \cup {None},
     pending_surfaces: SUBSET Clouds]

\* The row ensure_document inserts.
NewRecord ==
    [base_markdown |-> Empty, canonical_hash |-> None,
     seen |-> [s \in Clouds |-> None], github_blob_sha |-> None,
     version |-> 0, status |-> "ready",
     pending_markdown |-> None, pending_blob_sha |-> None,
     pending_commit_sha |-> None, pending_version |-> None,
     pending_surfaces |-> {}]

\* Slip: a column added later is not cleared.
NoPendingSlip(r) ==
    [r EXCEPT !.pending_markdown = None, !.pending_blob_sha = None,
              !.pending_commit_sha = None, !.pending_surfaces = {}]

NoPending(r) ==
    [r EXCEPT !.pending_markdown = None, !.pending_blob_sha = None,
              !.pending_commit_sha = None, !.pending_version = None,
              !.pending_surfaces = {}]

\* What the next pass takes for an unfinished publication: a pending_markdown
\* that Python finds true, so neither None nor the empty string.
Resumable == db.pending_markdown \notin {None, Empty}

\* No pass is under way and none was left unfinished.
Settled == pc = "idle" /\ ~Resumable

\* The pass has read a cloud version other than the recorded one.
Changed(s) == meta[s] # db.seen[s]
GitHubChanged(f) == f # Absent /\ f # db.github_blob_sha

\* The versions a pass gives to the merge.
Candidates ==
    {got[s] : s \in {t \in Clouds : Changed(t)}}
        \cup (IF GitHubChanged(file) THEN {file} ELSE {})

\* Slip: a cloud that was just read is taken to be up to date.
PendingSurfacesSlip(target) ==
    {s \in Clouds :
        (s = "google" => GoogleReplace) /\ ~Changed(s) /\ db.canonical_hash # target}

\* What a cloud is taken to hold: the export, or without one what was published.
SurfaceHash(s) == IF Changed(s) THEN got[s] ELSE db.canonical_hash

\* The clouds that do not hold the target yet.
PendingSurfaces(target) ==
    {s \in Clouds : (s = "google" => GoogleReplace) /\ SurfaceHash(s) # target}

-----------------------------------------------------------------------------
(* Steps that several actions share.                                        *)

GoTo(label) == pc' = label

\* A new pass knows nothing of the one before.
NoLocals ==
    /\ meta' = [s \in Clouds |-> None]
    /\ file' = Absent
    /\ got' = [s \in Clouds |-> None]
    /\ text' = None
    /\ commit' = None
    /\ opposed' = {}

\* The pass returns.
Return == GoTo("idle") /\ NoLocals

\* Slip: the row of a failed pass gets the versions the pass has read.
RaiseSlip ==
    /\ Return
    /\ db' = [db EXCEPT !.status = "error",
                        !.seen = [s \in Clouds |-> IF meta[s] # None THEN meta[s] ELSE @[s]]]
    /\ UNCHANGED history

\* The pass raises: sync_document logs it and calls mark_error.
Raise ==
    /\ Return
    /\ db' = [db EXCEPT !.status = "error"]
    /\ UNCHANGED history

\* A metadata read of one cloud, or nothing if the document is not there.
ReadMetadata(s, here, next) ==
    /\ pc = here
    /\ meta' = IF s \in Clouds THEN [meta EXCEPT ![s] = cloud[s].version] ELSE meta
    /\ GoTo(next)
    /\ UNCHANGED <<remoteVars, recordVars, file, got, text, commit, opposed, worldVars>>

\* Slip: the commit does not say which blob it replaces.
CanCommitSlip(expected) == TRUE

\* GitHub takes a commit only if the file is still the one the pass knows.
CanCommit(expected) == main = expected

CommitToMain(c) ==
    /\ main' = c
    /\ committed' = committed \cup {c}

\* The document of a conflict is written by _publish_conflict.
Oppose(versions) ==
    /\ opposed' = versions
    /\ UNCHANGED <<remoteVars, recordVars, worldVars, got, text, commit>>

-----------------------------------------------------------------------------
(* _sync_document: detection, merge and checkpoint.                         *)

StartPass ==
    /\ pc = "idle"
    /\ GoTo(IF Resumable THEN "publish_file" ELSE "detect_google")
    /\ UNCHANGED <<remoteVars, recordVars, worldVars, meta, file, got, text, commit, opposed>>

DetectGoogle == ReadMetadata("google", "detect_google", "detect_microsoft")
DetectMicrosoft == ReadMetadata("microsoft", "detect_microsoft", "detect_file")

\* get_file, and the return when no surface changed.
DetectFile ==
    /\ pc = "detect_file"
    /\ IF GitHubChanged(main) \/ \E s \in Clouds : Changed(s)
       THEN /\ file' = main
            /\ GoTo("export_google")
            /\ UNCHANGED <<meta, got, text, commit, opposed>>
       ELSE Return
    /\ UNCHANGED <<remoteVars, recordVars, worldVars>>

\* google_markdown or microsoft_markdown, for a cloud that changed.
Export(s, here, next) ==
    /\ pc = here
    /\ got' = IF s \in Clouds /\ Changed(s) THEN [got EXCEPT ![s] = cloud[s].text] ELSE got
    /\ GoTo(next)
    /\ UNCHANGED <<remoteVars, recordVars, worldVars, meta, file, text, commit, opposed>>

ExportGoogle == Export("google", "export_google", "export_microsoft")
ExportMicrosoft == Export("microsoft", "export_microsoft", "import")

MergeRefused ==
    /\ pc = "import"
    /\ Conflicted(db.base_markdown, Candidates)
    /\ GoTo("conflict_commit")
    /\ Oppose(Candidates)
    /\ UNCHANGED <<meta, file>>

\* current_blob: of the pass's last commit, or of the file it read.
CurrentBlob == IF commit = None THEN file ELSE commit

\* A commit to the document's branch, refused if the file moved.
CommitOrRaise(c, expected, next) ==
    IF CanCommit(expected)
    THEN /\ CommitToMain(c)
         /\ text' = c
         /\ commit' = c
         /\ GoTo(next)
         /\ UNCHANGED <<recordVars, meta, file, got, opposed>>
    ELSE Raise /\ UNCHANGED <<main, committed>>

\* The merged text becomes the file, unless it is the file already.
Import ==
    /\ pc = "import"
    /\ ~Conflicted(db.base_markdown, Candidates)
    /\ LET source == Merged(db.base_markdown, Candidates)
       IN  IF (IF file = Absent THEN Empty ELSE file) # source
           THEN CommitOrRaise(source, file, "rewrite")
           ELSE /\ text' = source
                /\ GoTo("rewrite")
                /\ UNCHANGED <<main, committed, recordVars, meta, file, got, commit, opposed>>
    /\ UNCHANGED <<preserved, pulls, tags, cloud, worldVars>>

\* Slip: what the AI provider made is published without a commit of its own.
RewriteSlip ==
    /\ pc = "rewrite"
    /\ \E r \in IF AutoRewrite /\ \E s \in Clouds : Changed(s) THEN Rewrites(text) ELSE {text} :
          text' = r
    /\ GoTo("checkpoint")
    /\ UNCHANGED <<remoteVars, recordVars, worldVars, meta, file, got, commit, opposed>>

\* The AI provider reworks what people wrote in a cloud, never a change that
\* came from GitHub alone.
Rewrite ==
    /\ pc = "rewrite"
    /\ \E r \in IF AutoRewrite /\ \E s \in Clouds : Changed(s) THEN Rewrites(text) ELSE {text} :
          IF r # text
          THEN CommitOrRaise(r, CurrentBlob, "checkpoint")
          ELSE /\ GoTo("checkpoint")
               /\ UNCHANGED <<main, committed, recordVars, meta, file, got, text, commit, opposed>>
    /\ UNCHANGED <<preserved, pulls, tags, cloud, worldVars>>

\* The row that makes the publication survive a crash.
Staged ==
    [db EXCEPT !.seen = meta,
               !.github_blob_sha = CurrentBlob,
               !.status = "syncing",
               !.pending_markdown = text,
               !.pending_blob_sha = CurrentBlob,
               !.pending_commit_sha = IF commit = None THEN main ELSE commit,
               !.pending_version = db.version + 1,
               !.pending_surfaces = PendingSurfaces(text)]

\* branch_head if the pass made no commit, then save_document; _publish_pending
\* goes by the row alone.
Checkpoint ==
    /\ pc = "checkpoint"
    /\ IF CurrentBlob = Absent
       THEN Raise
       ELSE /\ db' = Staged
            /\ GoTo("publish_file")
            /\ NoLocals
            /\ UNCHANGED history
    /\ UNCHANGED <<remoteVars, worldVars>>

-----------------------------------------------------------------------------
(* _publish_pending.                                                        *)

\* The file may have moved since the checkpoint: what is pending is then set
\* against what is there.
PublishFile ==
    /\ pc = "publish_file"
    /\ IF db.pending_markdown = Empty \/ main = Absent
       THEN Raise /\ UNCHANGED <<remoteVars, worldVars>>
       ELSE /\ file' = main
            /\ IF main # db.pending_blob_sha /\ main # db.pending_markdown
               THEN /\ GoTo("conflict_google")
                    /\ Oppose({db.pending_markdown, main})
               ELSE /\ GoTo("publish_google")
                    /\ UNCHANGED <<remoteVars, worldVars, got, text, commit, opposed>>
            /\ UNCHANGED <<recordVars, meta>>

PublishGoogle == ReadMetadata("google", "publish_google", "publish_microsoft")
PublishMicrosoft == ReadMetadata("microsoft", "publish_microsoft", "write_google")

\* Slip: a stale cloud is an error, to be tried again by the next pass.
StaleSlip(s, next) ==
    IF cloud[s].text # db.pending_markdown
    THEN Raise /\ UNCHANGED <<remoteVars, worldVars>>
    ELSE /\ GoTo(next)
         /\ UNCHANGED <<remoteVars, worldVars, recordVars, meta, file, got, text, commit, opposed>>

\* A cloud the pass must write has moved: a conflict, unless it holds the
\* pending text anyway.
Stale(s, next) ==
    /\ IF cloud[s].text # db.pending_markdown
       THEN /\ GoTo("conflict_commit")
            /\ Oppose({db.pending_markdown, cloud[s].text})
       ELSE /\ GoTo(next)
            /\ UNCHANGED <<remoteVars, worldVars, got, text, commit, opposed>>
    /\ UNCHANGED <<recordVars, meta, file>>

\* markdown_to_docx, then the upload: the cloud gives the text a new version.
Upload(s) ==
    cloud' = [cloud EXCEPT ![s] = [text |-> Rendered(db.pending_markdown),
                                   version |-> cloud[s].version + 1]]

Keep(here, next) ==
    /\ pc = here
    /\ GoTo(next)
    /\ UNCHANGED <<remoteVars, recordVars, worldVars, meta, file, got, text, commit, opposed>>

\* Google has no conditional update: replace_google_doc reads the version once
\* more and uploads in a later call.
CheckGoogle ==
    \/ "google" \notin db.pending_surfaces /\ Keep("write_google", "write_microsoft")
    \/ /\ pc = "write_google"
       /\ "google" \in db.pending_surfaces
       /\ IF Changed("google")
          THEN Stale("google", "write_microsoft")
          ELSE /\ IF cloud["google"].version = db.seen["google"]
                  THEN /\ GoTo("update_google")
                       /\ UNCHANGED <<recordVars, meta, file, got, text, commit, opposed>>
                  ELSE Raise
               /\ UNCHANGED <<remoteVars, worldVars>>

UpdateGoogle ==
    /\ pc = "update_google"
    /\ Upload("google")
    /\ GoTo("reread_google")
    /\ UNCHANGED <<main, committed, preserved, pulls, tags, recordVars, worldVars,
                   meta, file, got, text, commit, opposed>>

\* Slip: the upload to Google is the last one.
RereadGoogleSlip == ReadMetadata("google", "reread_google", "tag")

RereadGoogle == ReadMetadata("google", "reread_google", "write_microsoft")

\* OneDrive takes the upload only with the recorded eTag (If-Match), and
\* answers 412 otherwise.
ReplaceMicrosoft ==
    \/ "microsoft" \notin db.pending_surfaces /\ Keep("write_microsoft", "tag")
    \/ /\ pc = "write_microsoft"
       /\ "microsoft" \in db.pending_surfaces
       /\ IF Changed("microsoft")
          THEN Stale("microsoft", "tag")
          ELSE /\ IF cloud["microsoft"].version = db.seen["microsoft"]
                  THEN /\ Upload("microsoft")
                       /\ GoTo("reread_microsoft")
                       /\ UNCHANGED <<recordVars, meta, file, got, text, commit, opposed>>
                  ELSE Raise /\ UNCHANGED cloud
               /\ UNCHANGED <<main, committed, preserved, pulls, tags, worldVars>>

RereadMicrosoft == ReadMetadata("microsoft", "reread_microsoft", "tag")

\* GitHub refuses a tag that exists, and create_tag takes that for success.
Tag ==
    /\ pc = "tag"
    /\ tags' = IF CreateTags /\ \A t \in tags : t.version # db.pending_version
               THEN tags \cup {[version |-> db.pending_version,
                                commit |-> db.pending_commit_sha]}
               ELSE tags
    /\ GoTo("finalize")
    /\ UNCHANGED <<main, committed, preserved, pulls, cloud, recordVars, worldVars,
                   meta, file, got, text, commit, opposed>>

\* The row of the finished publication: the versions are the last ones read.
Completed ==
    [NoPending(db) EXCEPT !.base_markdown = db.pending_markdown,
                          !.canonical_hash = db.pending_markdown,
                          !.seen = meta,
                          !.github_blob_sha = file,
                          !.version = db.pending_version,
                          !.status = "ready"]

Finalize ==
    /\ pc = "finalize"
    /\ db' = Completed
    /\ history' = Append(history, db.pending_markdown)
    /\ Return
    /\ UNCHANGED <<remoteVars, worldVars>>

-----------------------------------------------------------------------------
(* _publish_conflict.                                                       *)

ConflictGoogle == ReadMetadata("google", "conflict_google", "conflict_microsoft")

\* Slip: the row is saved although nothing was preserved.
ConflictMicrosoftSlip == ReadMetadata("microsoft", "conflict_microsoft", "conflict_save")

ConflictMicrosoft == ReadMetadata("microsoft", "conflict_microsoft", "conflict_commit")

\* Slip: the branch is opened for review without a commit.
ConflictCommitSlip ==
    /\ pc = "conflict_commit"
    /\ GoTo("conflict_pull")
    /\ UNCHANGED <<remoteVars, recordVars, worldVars, meta, file, got, text, commit, opposed>>

\* A branch of its own with one file that holds every version.
ConflictCommit ==
    /\ pc = "conflict_commit"
    /\ preserved' = preserved \cup opposed
    /\ GoTo("conflict_pull")
    /\ UNCHANGED <<main, committed, pulls, tags, cloud, recordVars, worldVars,
                   meta, file, got, text, commit, opposed>>

ConflictPull ==
    /\ pc = "conflict_pull"
    /\ pulls' = pulls \cup {opposed}
    /\ GoTo("conflict_save")
    /\ UNCHANGED <<main, committed, preserved, tags, cloud, recordVars, worldVars,
                   meta, file, got, text, commit, opposed>>

\* Slip: the blob of a file that is not there is recorded.
DivertedSlip ==
    [NoPending(db) EXCEPT !.seen = meta, !.github_blob_sha = file, !.status = "conflict"]

Diverted ==
    [NoPending(db) EXCEPT !.seen = meta,
                          !.github_blob_sha = IF file = Absent THEN @ ELSE file,
                          !.status = "conflict"]

ConflictSave ==
    /\ pc = "conflict_save"
    /\ db' = Diverted
    /\ Return
    /\ UNCHANGED <<remoteVars, history, worldVars>>

-----------------------------------------------------------------------------
(* Failures.                                                                *)

\* A remote call raises, before it had an effect or after: the pass is over.
Fault ==
    /\ pc # "idle"
    /\ failures < MaxFailures
    /\ failures' = failures + 1
    /\ Raise
    /\ UNCHANGED <<remoteVars, last, edits>>

\* The process dies; the next one starts with the record alone.
Crash ==
    /\ pc # "idle"
    /\ failures < MaxFailures
    /\ failures' = failures + 1
    /\ Return
    /\ UNCHANGED <<remoteVars, recordVars, last, edits>>

-----------------------------------------------------------------------------
(* The environment: people.  Habits has                                     *)
(*   "rich"    they write on GitHub what a DOCX cannot carry                *)
(*   "clear"   they empty a cloud document                                  *)
(*   "delete"  they delete the file from the branch                         *)
(*   "revert"  they put an earlier text back on the branch                  *)
(*   "merge"   they resolve a conflict and merge its pull request           *)

Edit(s) ==
    /\ edits < MaxEdits
    /\ s \in Racing \/ Settled
    /\ edits' = edits + 1
    /\ UNCHANGED <<recordVars, passVars, failures>>

\* The lines a person rewrites: all of them in an empty document.
Touch(c, i) ==
    last' = [j \in Lines |-> IF j = i \/ c = Empty THEN edits + 1 ELSE last[j]]

EditCloud(s, i) ==
    /\ Edit(s)
    /\ cloud' = [cloud EXCEPT ![s] = [text |-> Typed(cloud[s].text, i, edits + 1, "plain"),
                                      version |-> cloud[s].version + 1]]
    /\ Touch(cloud[s].text, i)
    /\ UNCHANGED <<main, committed, preserved, pulls, tags>>

ClearCloud(s) ==
    /\ "clear" \in Habits
    /\ Edit(s)
    /\ cloud' = [cloud EXCEPT ![s] = [text |-> Empty, version |-> cloud[s].version + 1]]
    /\ UNCHANGED <<main, committed, preserved, pulls, tags, last>>

EditMain(i, form) ==
    /\ main # Absent
    /\ form = "rich" => "rich" \in Habits
    /\ Edit("github")
    /\ CommitToMain(Typed(main, i, edits + 1, form))
    /\ Touch(main, i)
    /\ UNCHANGED <<preserved, pulls, tags, cloud>>

DeleteMain ==
    /\ "delete" \in Habits
    /\ main # Absent
    /\ Edit("github")
    /\ main' = Absent
    /\ UNCHANGED <<committed, preserved, pulls, tags, cloud, last>>

RevertMain(c) ==
    /\ "revert" \in Habits
    /\ c \notin {Empty, main}
    /\ Edit("github")
    /\ CommitToMain(c)
    /\ last' = [j \in Lines |-> c[j].edit]
    /\ UNCHANGED <<preserved, pulls, tags, cloud>>

\* Somebody takes one side of a conflict and merges the pull request.
MergePull(p, c) ==
    /\ "merge" \in Habits
    /\ Edit("github")
    /\ c # Empty
    /\ CommitToMain(c)
    /\ pulls' = pulls \ {p}
    /\ last' = [j \in Lines |-> c[j].edit]
    /\ UNCHANGED <<preserved, tags, cloud>>

-----------------------------------------------------------------------------

\* A document that is about to be synchronised for the first time: the same
\* text everywhere, or a file and clouds still blank, or no file yet.
Init ==
    /\ main \in {Original, Absent}
    /\ committed = {main} \ {Absent}
    /\ preserved = {} /\ pulls = {} /\ tags = {}
    /\ \E c \in {Original, Empty} :
          /\ main = Absent => c = Original
          /\ cloud = [s \in Clouds |-> [text |-> c, version |-> 1]]
    /\ db = NewRecord
    /\ history = <<>>
    /\ pc = "idle"
    /\ meta = [s \in Clouds |-> None]
    /\ file = Absent
    /\ got = [s \in Clouds |-> None]
    /\ text = None
    /\ commit = None
    /\ opposed = {}
    /\ last = [i \in Lines |-> 0]
    /\ edits = 0
    /\ failures = 0

Detection ==
    \/ DetectGoogle \/ DetectMicrosoft \/ DetectFile
    \/ ExportGoogle \/ ExportMicrosoft
    \/ MergeRefused \/ Import \/ Rewrite \/ Checkpoint

Publishing ==
    \/ PublishFile \/ PublishGoogle \/ PublishMicrosoft
    \/ CheckGoogle \/ UpdateGoogle \/ RereadGoogle
    \/ ReplaceMicrosoft \/ RereadMicrosoft
    \/ Tag \/ Finalize

Conflicting ==
    \/ ConflictGoogle \/ ConflictMicrosoft
    \/ ConflictCommit \/ ConflictPull \/ ConflictSave

PassStep == Detection \/ Publishing \/ Conflicting

People ==
    \/ \E s \in Clouds, i \in Lines : EditCloud(s, i)
    \/ \E s \in Clouds : ClearCloud(s)
    \/ \E i \in Lines, form \in {"plain", "rich"} : EditMain(i, form)
    \/ DeleteMain
    \/ \E c \in committed : RevertMain(c)
    \/ \E p \in pulls : \E c \in p : MergePull(p, c)

Next == StartPass \/ PassStep \/ Fault \/ Crash \/ People

\* run_forever polls every document and a remote call always ends (httpx and
\* Google time-outs), so a pass starts again and again and each one finishes.
Spec == Init /\ [][Next]_vars
FairSpec == Spec /\ WF_vars(StartPass) /\ WF_vars(PassStep)
=============================================================================
