# A TLA+ verification of DocColab

DocColab keeps one document in step across GitHub (canonical Markdown), Google
Docs and Word Online.  This directory models the parts of it where an error costs
somebody's work or locks somebody out: the merge; the passes that detect, merge,
commit and publish, and the SQLite row that lets them survive a crash; how the agent
learns that there is something to pass over; the server that keeps agents going for
several projects and shares their runtimes with MCP tools; and the files that say who
may do what, from the guided setup that writes them to the server and the commands
that change them, with the audit log.  TLC checks the models on small instances; TLAPS
proves the theorems for documents of any length, any number of projects, users, tools
and channels, and any number of edits and failures.

Source paths are relative to the repository.

## The system

| Part | State it keeps | Operations | Hard because | Correct when |
| --- | --- | --- | --- | --- |
| `SyncManager` (`agent/sync/sync_manager.py`) | none between passes, locals within one | a pass: detect, export, merge, commit, AI rewrite, checkpoint, publish, tag, complete; or a conflict branch with a pull request | some twenty remote calls in a row, each of which can fail, with people editing and a process that can die between any two | no edit is lost, surfaces converge, a version is published once and everywhere |
| `ConflictResolver` (`agent/sync/conflict_resolver.py`) | none | three-way merge by lines | overlap of up to three versions, deduplication, empty texts | it refuses every overlap and keeps every change it accepts |
| `StateStore` (`agent/sync/state_store.py`) | SQLite: document rows, cursors, watches, events | row read and write, cursors, event deduplication, backup | it is all a restarted process knows | a row never mixes two publications |
| GitHub, Drive, OneDrive clients | the remote services | conditional commit and upload, tag, pull request | preconditions differ: blob SHA, eTag, none for Google | a stale write is refused |
| Conversion (`agent/conversion/`) | none | Markdown to DOCX and back | it loses what a DOCX cannot carry | it does not lose the text |
| AI pipeline (`agent/ai/`) | none | rewrite | its answer is arbitrary | it is committed before it is published |
| Poll loop, provider events, webhook (`agent/sync/provider_events.py`, `agent/webhook/app.py`) | queue, cursors, watches, remembered notifications | poll, notify, renew | duplicated, lost and delayed notifications, a cursor saved before what it reported is done | a change is found even without a notification |
| Supervisor, runtime cache, instance lock (`agent/mcp_server/runtime_cache.py`, `agent/instance_lock.py`) | tasks, runtimes, a lock file | start, reload, drain | MCP tools share the runtimes that a reload closes | one publisher per database |
| HTTP retry (`agent/http_retry.py`) | none | repeat idempotent requests | an answer lost after the effect | a bounded number of attempts |
| MCP service, access control, registries (`agent/mcp_server/`) | `users.json`, a file per project | authenticate, authorise, the tools that change users and projects, `init-owner`, `rotate-token` | files shared by processes, a role read before the call that uses it | the last owner stays, no change is lost but to a race, a disabled project stays as it is |
| Audit log (`agent/mcp_server/audit.py`) | the log and its backups | record, rotate | renames one after the other | the last records, without a gap |
| Secrets and guided setup (`agent/secret_store.py`, `agent/setup_wizard.py`) | OS keyring, generated files | generate, store, roll back, clean up | a failure or Ctrl-C half-way, an undo that fails itself | all or nothing, and over nothing |

The parts meet in `_sync_document`: the poll loop, the queue or an MCP tool calls
`sync_document`, an asyncio lock per document serialises the passes of a process
and the instance lock the processes; a pass reads the row, calls the remote
services one after the other and writes the row at two points, the checkpoint and
the end.  Everything else a pass knows is lost when it ends.  The other meeting place is
the output directory: setup writes the users file and the project that the server
reads at every call, its tools and the operator's commands replace, and the
supervisor looks at in every round.

`PROJECT.json` lists the hazards of the code at their lines, with the properties
that cover them.

## The modules

| Module | Models |
| --- | --- |
| `Markdown` | the texts, the merge of `conflict_resolver.py`, and what conversion and the AI provider do to a text |
| `SyncDocument` | the passes over one document, its row, the three surfaces, failures, crashes and people |
| `ThreeWayMerge` | `ConflictResolver.merge` as it is written, difflib's search for blocks included |
| `MergeSafety` | its reference definition, the comparison with `Markdown`, and its inductive invariant |
| `Publication` | the abstract promise: a series of versions that only grows, at most one staged, none staged that Git does not hold, none withdrawn unless it is set aside |
| `SyncSafety` | the properties, the three inductive invariants and the refinement mapping from `SyncDocument` to `Publication` |
| `ProviderEvents` | one machine's agent and its clouds: notifications, the webhook, the queue, the delta cursors, `run_forever` and the renewal of the watches |
| `ChangeFeed` | the abstract promise to those who edit in a cloud: a pass looks at the document after each change, and its row never goes back to an older version |
| `EventsSafety` | the properties, the inductive invariant and the refinement of `ChangeFeed` |
| `Supervisor` | one `doccolab-mcp serve`: the supervisor, the cache of runtimes, the lock files, the agents, the tools that run passes, reload and shutdown |
| `SupervisorSafety` | its properties and its inductive invariant |
| `AuditLog` | the audit log's files: a record, its rotation, and what a kill leaves of one |
| `Registries` | the users file and a project's definition, as the server's tools and the commands of `doccolab-mcp` read and replace them, and what is audited when |
| `Setup` | guided setup and the secrets in the keyring |
| `Installation` | `Registries` and `Setup` composed: one output directory from setup to a server in use |
| `InstallationSafety` | its properties and its inductive invariant |
| `MCSyncDocument`, `MCInstallation` | the modules TLC runs, the second with its symmetry |
| `Markdown_proofs`, `MergeSafety_proofs`, `SyncSafety_proofs`, `SyncClouds_proofs`, `SyncLatest_proofs`, `EventsSafety_proofs`, `SupervisorSafety_proofs`, `InstallationSafety_proofs` | the proofs |

### Texts

A file is `Empty` or one text per line, and a text is *which edit wrote it* and *in
which form*: `"rich"` Markdown a DOCX cannot carry, `"ai"` what the provider made
of it, `"plain"` anything else.  This is what the properties need: whether an edit
is still somewhere, and whether two surfaces hold the same.  `Rendered` turns
`"rich"` into `"plain"`, as `markdown_to_docx` followed by `docx_to_markdown` does
to a fenced block's language, raw HTML or a thematic break.  A hash, a blob id and a
commit are injective on contents, so each is the content; contents are already
normalised, and the `\r\n` and trailing blanks `_normalize` removes are left out.

`Changes`, `Overlap` and `Merged` are the merge for versions that replace lines,
for an empty version and for an empty base: what people do in `SyncDocument`.

### The merge

`ThreeWayMerge` does not go by lines that keep their numbers: a text is any sequence
of lines, repeated and blank ones included, and lines are inserted and deleted.

| Code (`conflict_resolver.py`) | Definitions |
| --- | --- |
| `SequenceMatcher(autojunk=False)` | `Blocks`, `Precedes`: difflib's longest block, the earliest of several; `Match`: one round of its loop, which takes that block of a pair of stretches and leaves what is on either side (`Beside`) |
| `merge` 31-35, `_changes` 66-74 | `Collect`, once a version is matched; `Between`: what lies between two blocks |
| `_overlaps` 77-84, the comparison in `merge` | `Overlaps`, `Equivalent` |
| `merge` 20-63 | `Start`, `Compare`, `Compared`, `Apply`; `Spliced` is the slice assignment, `Normal` is `_normalize` |

Two orders that the code has are sets here, where the order makes no difference: difflib's
stack of stretches, since a block is found in its own stretch whenever that is; and the
sorted list of changes, of which `Apply` takes the last.  The order in which changes are
compared is the code's (`Earlier`).

`Expected` and `Opposed` say what a merge should be without following the code: line by
line, and from what the versions change rather than from the order they come in.
`AgreesWithMarkdown` compares the algorithm with the operators that `SyncDocument` uses.
The conflict document is abstracted to its holding every version.

### A pass

`pc` names the next remote call.  One action is one call with the computation up to
the next, so that between any two actions a person may edit, the call may fail
(`Fault`) or the process may die (`Crash`).

| Code | Actions |
| --- | --- |
| `_sync_document` 120-155 | `StartPass`, `DetectGoogle`, `DetectMicrosoft`, `DetectFile`, `ExportGoogle`, `ExportMicrosoft` |
| 157-224 | `MergeRefused`, `Import`, `Rewrite` |
| 226-258 | `Checkpoint` |
| `_publish_pending` 266-299 | `PublishFile`, `PublishGoogle`, `PublishMicrosoft` |
| 301-326, `replace_google_doc` | `CheckGoogle`, `UpdateGoogle`, `RereadGoogle` |
| 328-357, `OneDriveClient.replace` | `ReplaceMicrosoft`, `RereadMicrosoft` |
| 359-386 | `Tag`, `Finalize` |
| `_publish_conflict`, and 276-277 | `ConflictGoogle`, `ConflictMicrosoft`, `ConflictCommit`, `ConflictPull`, `ConflictSave` |
| `sync_document` 96-98 and `mark_error` | `Raise`, used by every call that refuses and by `Fault` |

Points a reader may want to check against the code:

- `_publish_pending` uses the row and what it reads itself, never a local of the
  detection, so `Checkpoint` forgets the locals; a publication resumed after a crash
  and one that was not interrupted are then the same.
- An empty `pending_markdown` is false in Python: `Resumable` excludes it, and
  `PublishFile` raises on it.
- `Completed` and `Diverted` save the cloud versions read last, whatever text they
  belong to.
- `ConflictCommit` is three calls (branch, file, commit) on a branch only this pass
  knows; a failure among the first two leaves an empty branch and nothing else.
- `Fault` is a call that raised; together with the action of the call it also covers
  a call that took effect and whose answer was lost.

Left out: `last_writer`, `last_error`, `updated_at` and `pending_source`, which no
guard reads, and two conflict branches named within the same second.

### How the agent learns of a change

`ProviderEvents` is a level above: it keeps what makes a pass begin, and of the pass that
it reads the versions of its document, any number of times, and saves those it has read.
Its unit is the change of a document in a cloud, counted; a version, in a cloud or in the
row, is the count it stands for, and a cursor is the count it is past.

| Code | Actions |
| --- | --- |
| people; Google's notification of every channel | `Edit` |
| `create_webhook_app`, `validate_google_notification`, `remember_event`, `request_sync` | `Deliver`, any number of times, in any order, or never |
| `SyncManager.__init__`, `prune_events` | `Prune` in `Start` and `Renew` |
| `sync_all`, the loop of `run_forever` 65-83 | `FirstPass`, `FirstEnds`, `QueuePass`, `Timeout`, `PollEnds`, `RoundPass`, `RoundEnds` |
| the metadata calls of a pass (125-126, 276-277, 298-299) | `ReadVersions` |
| `save_document` (258, 386, and after a conflict) | `SaveVersions` |
| `sync_document` returns, or records an error | `PassEnds`, `PassFails` |
| `initialize_microsoft_delta`, `poll_microsoft_delta`, `OneDriveClient.poll_delta` | `InitializeDelta`, `DeltaReady`, `Poll`, `DeltaFails` |
| `renew_google_watches`, `watch_file`, `stop_watch` | `Renew`, `RenewDocument`, `StopWatch`, `ForgetWatch`, `WatchFile`, `SaveWatch`, `RenewalEnds` |
| `_run_service`, the service manager, a kill | `Start`, `Stop`, `Exit`, `Crash` |

Points a reader may want to check against the code:

- Validation, `remember_event` and the queueing have no `await` between them that lets
  another handler or the loop in: `Deliver` is one action.  A kill among them is a kill
  before or after it, since what is remembered and not queued is what a kill loses of
  the queue.
- A row's version says which version a pass has looked at, not that it read the text: a
  publication and a conflict save versions they have not exported (298-299 and 276-277).
  `KeepsWholeFeed` is about the version alone.  What becomes of the text is a matter of
  `SyncDocument`: an edit that finds the document at rest gets into Git (`EditsReachGit`),
  and one that is made during a pass may not (`lost_edit`).
- A pass that fails is one of the faults, which are bounded: a document whose file was
  deleted while a publication was pending fails in every pass, and nothing is said of it.
- The cursor is saved before the first pass for what it reported; the round after the
  poll passes over every document all the same (76-80), which is what makes that
  harmless.  `PollEndsSlip` leaves that out and `KeepsWholeFeed` fails.
- A delta error other than 410 leaves `run_forever`.  The instance lock lets one of
  `run` and `watch-google` run at a time: `process` is the one that has it.
- A channel that has expired is one whose notifications never come.

Left out: the comparison of a channel's token and resource, the pages of a delta
(`poll_delta` follows them within one call), items deleted in OneDrive, documents taken
out of the configuration with their watches still recorded, and `run --once`.

### The server

`Supervisor` is one level up: what a pass does is left out, and who runs one on which
runtime, and when that runtime is opened, forgotten, closed and unlocked, is kept.
The two models meet in the lock of a document and in the lock file: `SyncDocument`
has one pass at a time, `pass` and `lock` say why.

The server is one event loop, so an action is what a coroutine does up to its next
`await`.  Three things run in threads: a pass (`AgentBegins` to `AgentEnds`,
`ToolBegins` to `ToolEnds`), `runtimes.get`, which holds the cache's lock throughout
and is therefore one action, and `invalidate`, which holds it only while it forgets
the runtime: `Forget`, `CloseClients` and `ReleaseLock` are three actions, with tools
calling in between.

| Code | Actions |
| --- | --- |
| `build_runtime`, `InstanceLock.acquire`, `ProjectRuntimeCache.get` | `Build` in `Get` and `ToolCalls`, `GetFails` |
| `ProjectRuntimeCache.invalidate`, `Runtime.close` | `Forget` in `Invalidate` and `MainCloses`; `CloseClients`, `ReleaseLock` |
| `SyncSupervisor.run` 75-106 | `Top`, `ListFails`, `StopDisabled`, `Check`, `Get`, `GetFails`, `Start`, `Rest` |
| `_stop_project` | `Stopping` in `StopDisabled` and `Check`, `Drain`, `Invalidate` |
| `run_forever`, `sync_all`, `sync_document` | `AgentBegins`, `AgentEnds`, `AgentRests`, `AgentPolls` |
| `update_document`, the round trips, `sync_github` | `ToolCalls`, `ToolBegins`, `ToolEnds` |
| `_serve` | `MainStops`, `MainGathers`, `MainCloses`, `MainReturns` |
| `status` | `Ready` |
| uvicorn, other processes, administrators | `Signal`, `ServerReturns`, `OtherLocks`, `OtherUnlocks`, `Configure` |

Points a reader may want to check against the code:

- The final `for project_id in list(self.tasks)` is the round with `sup.final`.
- A project whose `stat` raises in `fingerprint` (line 80, outside the `try`) ends the
  supervisor, and with it the server; a runtime that cannot be built only waits.
- `run_forever` looks at its `stop_event` between rounds, not while it waits: an agent
  told to stop in `queue.get` polls once more (`AgentPolls` has no guard for it).
- After a close, reading a row raises, and so does the `mark_error` that
  would record it: the exception leaves `sync_document` and ends the agent or the call.
- A configuration is its version.  Two edits never have the same fingerprint.

Two behaviours the model shows and no property forbids: a reload closes a runtime
under a pass that a tool runs on it (only agents are drained there, tools only at the
shutdown), and the agent that `queue.get` keeps waits out its time-out at a stop and
polls once more.

Left out: the queue, which only the separate `doccolab run` fills (`ProviderEvents` has
it); `run_sync_agents` false; two projects configured with the same database (the second
then finds the lock held, as with `OtherLocks`); a second signal, with which uvicorn
stops waiting for calls; tools that do not run passes.

### The installation

`Registries` has two processes, the server and one command of `doccolab-mcp`.  The server
runs its tools one at a time on its event loop, but it authenticated the request, and read
the caller's role, before; a change reads its file, computes the new text and renames it
into place, and the other process may do the same in between, since the registries'
locks are one process's own.  A read and the replacement it leads to are therefore two
actions.

| Code | Actions |
| --- | --- |
| `doccolab-mcp serve`, `init-owner`, `rotate-token`; `UserRegistry.__init__`; `_execute` 104-112 | `Serve`, `Command`, `Open`, `CreateUsers`, `CheckOwner`, `Printed` |
| `BearerAuthMiddleware`, `MCPService.begin`, `AccessController` | `Authenticate`, `Call` with `Permitted`, `Authorized`, `role_for` |
| `UserRegistry.add`, `remove`, `set_role`, `rotate_token`, `_atomic_json` | `LoadUsers` with `Refused` and `Changed`, `WriteUsers` |
| `ProjectRegistry.expose_folder`, `revoke_folder`, `set`; `set_project_config` | `LoadProject`, `WriteProject`, `Note` |
| `AuditLogger.record`, `_rotate_if_needed` | `Record`, with `Interrupted` in `Kill` |
| `record_outcome`, shutdown | `Close`, `Shutdown` |
| `run_interactive`, `main` of `setup_wizard.py` | `Run`, `Cancel`, `Confirm` |
| `generate_setup`, `_atomic_write`, `_clean_partial_setup` | `WriteTarget`, `WriteFails`, `Clean` |
| `save_secrets` | `ReadSecrets`, `StoreSecret`, `StoreFails`, `RestoreSecret`, `Restored` |
| `set-secret`, `delete-secret`, the operator's hands | `SetSecret`, `DeleteSecret`, `MoveAway` |
| Ctrl-C, a kill | `Interrupt`, `Kill` |

`Installation` joins them: `SetupStep` gives the users file and the project the contents
that setup generates, and `RegistriesStep` tells setup's disk of the files a server
created.  `meant`, `raced` and `void` are history: what the files would hold had each
change been made on the one before, whether two processes were about to replace the
users file at once, and the tokens somebody was told are invalid.

Points a reader may want to check against the code:

- `set_project_config` alone records its authorisation after the change (`Note`), and a
  denial or an invalid definition only as the failure `Close` records; `Begin` says so.
- `Authorized` refuses a disabled project to every tool, `set_project_config` included:
  a project is enabled again only by hand (`DisabledIsFrozen`).
- Ctrl-C is no `Exception`: nothing is cleaned up although `main` says that no files
  were written, and the next setup stops at the files that are there (`Interrupt`,
  `Conflicts`).
- `save_secrets` suppresses an error of the keyring while it puts a secret back, and
  `_clean_partial_setup` goes on past a file it cannot remove: `stuck` notes either.

Inputs are small sets, named where they are declared: `InitialUsers` (no file, or
owners, enabled or not), `InitialProjects`, `Definitions` (what clients send to
`set_project_config`: a usable one, one that leaves its owners no tool but `use`, and a
disabled one), `ServedJobs`.  One request waits while another is served; the operator
runs one thing at a time; setup is given no secret or all of them; one file at most
cannot be removed.

Left out: files that cannot be parsed and writes that fail in the registries, validation
of paths, the directories setup creates and `_clean_partial_setup` removes, keyring
errors that are no `KeyringError`, and what a tool other than those above does once it
is authorised.  Tools are taken to run one at a time: those with an `await` in them
change no registry.

### People

`Racing` says which surfaces people edit *while* a pass runs; the others are edited
only between passes, with no publication left to finish.  `Habits` adds what else they
do: write rich Markdown, empty a cloud document, delete the file, put an earlier text
back on the branch (a reverted commit, or a conflict resolved to it), merge a conflict
pull request (they take one of its sides; a merge of both is like an edit afterwards).
A document starts with the same text everywhere, with a file and blank clouds, or with
no file.

## The runs

A bound is a constant in the configuration file.  The states are TLC's distinct ones.

| Run | Instance | States | Shows |
| --- | --- | --- | --- |
| `settled` | 2 lines, both clouds, 3 edits, 1 failure, GitHub racing, rich Markdown and merged pull requests | 1,918,358 | `SeenIsCaptured`, `OverwritesOnlyCaptured`: no edit is lost. `LatestEditWins`, `Converged`: the surfaces agree on the latest edits. `TaggedIsEverywhere`: a tag comes last. `CloudInv`, `LatestInv`: why |
| `racing` | 1 line, both clouds, AI rewrites, 2 edits, 1 failure, everything racing, all habits, under fairness | 348,318 | `TypeOK`, `PassInv`, `RecordIsCoherent`, `PublishedIsCommitted`; `KeepsPromise`: the passes implement the safety of `Publication`. `KeepsWholePromise`: no text stays staged for ever, but for a deleted file. `EditsReachGit`: an edit that finds the document at rest gets into Git, unless it is written over in the cloud first |
| `lost_edit` | 1 line, OneDrive only, 2 edits, OneDrive racing | violation | `OverwritesOnlyCaptured` does not hold when Word is edited during a pass |
| `stale_tag` | 1 line, 2 edits, 1 failure, GitHub racing | violation | `TagsNameTheirVersion` |
| `unresolved` | 1 line, 3 edits, nothing racing | violation | `UnresolvedKeepsClouds` |
| `restored` | 1 line, 3 edits, nothing racing, earlier texts put back | violation | `RegeneratesClouds`: a cloud keeps its side of a conflict that was resolved to the published text |
| `merge` | every base and two versions of up to 3 lines over two words and a blank line; every base and three versions of 3 numbered lines | 712,306 | `MergesAllOrRefuses`: the merge is the reference definition, in any order of versions. `LoneEditIsKept`. `AgreesWithMarkdown`; `MergeInv` |
| `events` | 2 documents in 2 drives, 2 edits, 3 channels, 1 fault, under fairness | 644,589 | `KeepsWholeFeed`: the agent implements `ChangeFeed`, liveness included: the row's version reaches every change. `OwedIsQueued`, `QueueIsBounded`: notifications that are lost, repeated or pruned. `WatchesAreOrderly`: a renewal cut off anywhere. `TypeOK`, `EventsInv` |
| `supervised` | 1 project with 2 documents, 1 tool call at a time, 3 runtimes, 1 change of the registry, 1 failure or rival publisher, under fairness | 66,480 | `TypeOK`, `SupervisorInv`, `CachedIsOpen`. `OnePublisher`: never two open state stores for a database. `ReadyMeansServed`: what `/readyz` promises. `AgentIsDrained`, `ShutdownDrains`: what is waited for before a runtime is closed. `StopEnds`: a stop ends. `EnabledIsServed`: a project that stays enabled gets its agent |
| `stale_config` | 1 project, 1 document, 1 tool call, 1 change | violation | `AgentRunsItsFingerprint`: an edit of the configuration is taken for loaded |
| `installation` | 2 users, 1 folder, 2 secrets, 2 setups or changes by hand, 2 calls, 2 commands or servers, 1 kill, a log of one record a file and 2 backups | 1,092,539 | `AuditIsContiguous`, `LastOwnerStays`, `NothingIsLost`, `SetupAllOrNothing`, `DisabledIsFrozen`, `NeverOverwrites`; `InstallationInv`, `TypeOK` included |
| `lost_rotation` | the same with 1 setup | violation | `RotatedIsInvalid`: a tool of the running server restores a token that `rotate-token` has replaced |

Why the bounds are enough. A merge needs two lines to tell an overlap from a pair of
separate changes, and one line for everything else. Three edits give every surface a
version of its own, or a conflict and an edit after it. One failure at any call of any
pass is what the recovery code is about; a second one meets the same row. Proofs cover
what the bounds leave out for the safety properties of `settled` and `racing`; `CloudInv`
and what follows from it were also checked with all habits, AI rewrites and Google in
read-only mode (1 line, 3 edits), and `LatestInv` with AI rewrites and with one cloud or
none. For the merge: two lines tell
an overlap from a pair of separate changes, a third makes a block with something on
either side of it, and two words with a blank make repeated lines, for which difflib's
choice of a block matters. For the server: projects meet only in the supervisor's round
and in the shutdown; the proofs are for any number of them, and two were checked too
(1,456,622 states). Two documents make a round that a stop can come into, and let a tool
and an agent be in passes at once. A project and a call refer to three runtimes at most
(the cache's, the one being closed, and an old one the call kept), and only one runtime
is being closed at a time, so with two more slots than projects `Build` is never kept
waiting. The invariants were also checked with two changes of the registry (378,658
states). For the events: two drives are needed for one cursor to move without the other,
three channels for a renewal of both documents and one more, and one fault stops a
renewal, a poll, a pass or the process at any point. For the installation: two users
make one owner another one can demote or remove, two commands or servers make a race,
one kill comes anywhere in it, and a log of one record a file rotates at every record.

Fairness.  `FairSpec` asks for weak fairness of `StartPass` and of the steps of a
pass.  `run_forever` starts a pass at least every `poll_interval_seconds` and after an
error (`sync_document` catches it), and every remote call has a time-out; an exception
that leaves `run_forever` itself ends the agent, which is then started again by the
supervisor or the service manager.  People are under no fairness.  The bounds on edits
and failures mean that they stop at some point: the claims are about a system that is
left alone for long enough.  Two documents are promised nothing.  One has lost its file while
a text was staged: `vacant` of `Publication` excuses it, and without that TLC finds the
passes raising for ever (line 270 of `sync_manager.py`).  The other was emptied: an empty
text is checkpointed but never published, since line 122 takes it for nothing pending; it
counts as nothing staged in `KeepsWholePromise`, the other clouds are never emptied, and
the status stays `error`.  `EditsReachGit` excuses neither document, only an edit whose
own cloud was emptied or written over: it starts with nothing staged, and what a pass
stages is in Git before.

The server's `FairSpec` has weak fairness for the supervisor, `_serve` and a runtime
being closed, since the event loop and its threads go on, and for another publisher,
which ends some day.  An agent and a tool call have strong fairness: each may find the
lock of a document taken again and again, and `asyncio.Lock` wakes its waiters in the
order they came, so it gets the lock at some point.  Nobody has to call, to
configure or to stop the server.  That uvicorn answers the calls under way before
`serve` returns is uvicorn's promise, and an action of its own.

The agent's `FairSpec` in `ProviderEvents` has weak fairness for the loop, the renewal and
`Start`: calls have time-outs and the service manager starts an agent that ended.
Nobody has to edit, stop or renew, and Google need not deliver anything.  While
notifications keep coming the poll never times out (line 70), so the claim for OneDrive
rests on people stopping at the bound.  The installation has no liveness property.

What the violations show is in the findings of `PROJECT.json`.  Two of them shape the
properties.  `settled` keeps people off the clouds during a pass *because* `lost_edit`
shows that their edits can otherwise be lost; it still lets them commit to GitHub at
any point, and fails or kills the pass at any point.  And `Converged` leaves out a version
that repeats the one before it *because* of `restored`: a pass takes a cloud that did not
change to hold the published text, also after a conflict, when it holds something else.

Every property of a passing run has a mutant: an operator whose name ends in `Slip`,
defined before the definition it stands for.  With the slip in its place TLC finds
the property violated.

## The proofs

`SyncSafety_proofs` proves, for every number of lines, set of clouds, setting of the
switches, habit and bound:

- `PassInvHolds`: `Spec => []PassInv`;
- `TypeCorrect`, `RecordCoherent`, `PublishedCommitted`: the properties of `racing`
  that follow from it;
- `PromiseKept`: `Spec => KeepsPromise`, the refinement of `Publication`'s safety.

`SyncClouds_proofs` proves, with the same generality and `CloudsAtRest` (`Racing` has no
cloud), so for any habits, with AI rewrites or without, and Google written or only read:

- `CloudInvHolds`: `Spec => []CloudInv`;
- `SeenCaptured`, `OverwritesCaptured`: no edit is lost, neither forgotten by the record
  nor overwritten by an upload before Git has it;
- `TaggedEverywhere`, `SurfacesConverge`: the other properties of `settled` but one.

`SyncLatest_proofs` proves, when moreover every cloud is written (`AllWritten`) and people
only write and merge pull requests (`PeopleOnlyWrite`):

- `LatestInvHolds`: `Spec => []LatestInv`;
- `LatestWins`: `Spec => []LatestEditWins`, for any number of lines and edits, with
  commits to the branch at any moment, any failures and crashes.

Each hypothesis is needed.  Without `CloudsAtRest` there is `lost_edit`.  Without
`AllWritten` a Google document in read-only mode takes GitHub's edit back; a person who
empties a cloud, deletes the file or puts an earlier text back can make the latest edit
give way: TLC finds a counterexample to `LatestEditWins` for each (2 lines for the first,
1 line and 3 edits for the others).

`Markdown_proofs` has, beside the types, what the merge keeps, for any number of lines and
versions: `MergeTakesEveryChange` (a merge that is not refused has every line that some
version changed as that version has it, and the others as the base has them) and
`MergeDropsNothing` (the same with empty versions and an empty base).

`MergeSafety_proofs` proves, for any words, texts of any length and any number of versions:

- `MergeInvHolds`: `Spec => []MergeInv`;
- `MergeIsExpected`, `LoneEdits`: the merge is the reference definition, and a version that
  alone was changed is the merge;
- `MarkdownAgrees`: `Spec => []AgreesWithMarkdown`, for any number of numbered lines and
  edits.  What is proved about the passes is proved with `Markdown`'s operators; this is
  why it holds of the resolver's.

None of them rests on a block's being the longest (`Precedes`): whatever common blocks were
chosen, the merge would be that of the changes between them.  `MarkdownAgrees` needs that
the search ends only when no stretch has a common block (`Complete`).

`SupervisorSafety_proofs` proves, for any projects, documents, concurrent calls,
number of runtimes and bounds:

- `SupervisorInvHolds`: `Spec => []SupervisorInv`;
- `SupervisorTypeCorrect`, `CachedOpen`, `SinglePublisher`, `ReadyIsServed`: the
  invariants of `supervised` that follow from it;
- `AgentDrained`, `ShutdownIsDrained`: its action properties.  They rest on
  `OnlyCloseCloses`: no step but `Runtime.close` of the runtime `invalidate` took
  closes one.

`EventsSafety_proofs` proves, for any documents and drives, and any bound on channels,
edits and faults:

- `EventsInvHolds`: `Spec => []EventsInv`;
- `EventTypesHold`, `OwedIsQueuedHolds`, `QueueIsBoundedHolds`,
  `WatchesAreOrderlyHolds`: the invariants of `events`;
- `FeedIsKept`: `Spec => KeepsFeed`, the refinement of `ChangeFeed`'s safety: an `Edit` is
  a `Change`, `SaveVersions` is a `Save`, and every other step a stutter.

`InstallationSafety_proofs`, with lemmas on the rotation of the log, proves, for
any users, folders, secrets, sizes of the log and bounds:

- `InstallationInvHolds`: `Spec => []InstallationInv`;
- `TypesHold`: `Spec => []TypeOK`;
- `AuditHolds`, `OwnerHolds`, `ChangesHold`, `SetupHolds`: the other invariants of
  `installation`;
- `DisabledStaysFrozen`, `SetupNeverOverwrites`: its action properties.

The assumptions are those `Markdown` and `SyncDocument` name: at least one line,
clouds among the two, Boolean switches, bounds that are numbers, and `None` and
`Absent` that are no texts and no numbers; and of `Supervisor`, that slots are numbers and that
`None`, `Missing`, `Agent` and `Other` are names of nothing else; of `ProviderEvents`, that
the documents are finitely many and the drives hold just them; of `AuditLog`, `Registries`
and `Setup`, that there is a backup and room for a record, that the secrets are finitely
many, and that the markers are no values; of `ThreeWayMerge`, that a blank line is no word
and that there is a version and a line.  TLC evaluates them in every run.

`RecordIsCoherent` is not inductive: that `Finalize` increments the version by one
rests on the row having something pending, which rests on where the pass is.
`PassInv` adds what each stage of a pass may rely on:

- `ReadIsCommitted`: what a pass has read from the branch, committed or staged is in
  the branch's history, so that the checkpoint stages a commit;
- `ChangedIsExported`: at the merge every changed cloud has a text;
- `BlobIsText`: `current_blob` is the blob of the text about to be staged, or the file
  is absent and the checkpoint raises;
- `PhaseFitsRecord`: detection runs with nothing to resume and publication with
  something; a conflict found by a publication opposes the pending text, and it is on
  the conflict branch before the row forgets it.  The last part is what makes a
  withdrawal a `Withdraw` of `Publication`.

The properties of `settled` speak of documents at rest, and say nothing of a pass that is
half-way.  `CloudInv` is `PassInv` with what the clouds stand for at each stage:

- `VersionsAreOld`: a version that was read or recorded is no later than the cloud's, so
  that an edit or an upload gives one that cannot be mistaken for a seen one;
- `ReadIsCurrent`: between detection and checkpoint the versions and the texts the pass
  has read are the clouds' own.  This is where `CloudsAtRest` is needed;
- `EditsAreCaptured`: the edits of a seen version are in Git; from the merge on, and as long
  as something is pending, those of every cloud are, since the merge dropped nothing
  (`MergeDropsNothing`), or they are among the versions about to be opposed;
- `CanonicalIsBase`: the row's canonical text is its base text, and what a publication
  found on the branch is what is pending;
- `PendingReaches`: a cloud that was written, or that need not be, holds the pending text,
  unless the pending text is the one published last (see `restored`);
- `ReadyIsPublished`: a row that says ready is a new one, or its seen versions hold its base.

`LatestEditWins` needs to know where the latest edit of a line *is*, at every moment.
`LatestInv`, as long as nothing was preserved: before a publication is staged some surface
shows the latest edit of each line, and if the base has it all do (`LinesAreShown`); an
unchanged cloud holds the base (`RowIsPublished`), so the surface that shows an edit newer
than the base's changed, is given to the merge, and the merge takes its line
(`MergeTakesEveryChange`).  From the merge on the branch shows every latest edit and goes on
showing it while people commit (`BranchIsLatest`); that the merged text is what is on
the branch is GitHub's refusal of a stale blob (`CanCommit`, whose slip breaks this).
When the publication ends every cloud holds its text, written or not
(`OthersHoldPending`, `PendingReaches`), which is `RowIsPublished` again.  Whatever was
opposed is preserved, so that no version is opposed before the hypothesis ends
(`NothingEmptied`).

`OnePublisher` is not inductive either: a runtime may be built only because the lock
file is free, so an open runtime must hold it, and only `ReleaseLock` gives it up
(`LocksAreOwned`).  `ShutdownDrains` needs the longest chain: `_serve` closes after
the server and the supervisor have ended (`ServeWaits`), the supervisor's last round
stops every task (`LastRound`), a task runs on the runtime the cache has
(`TasksAreCached`), an agent without a task has ended (`AgentsAreTasks`), and whoever
is in a pass is an agent in its round or a call under way (`PassesAreOwned`).

`EventsInv` has three parts beside the types.  `CountsInv`: what a pass has read is no
older than the row's version and no newer than the cloud's, which makes `SaveVersions` a
`Save`.  `LoopInv`: without a
process there is no agent and no queue, so that the first round of the next one, which
has every document, owes nothing to what was lost; and nothing is left in the round
while the agent waits.  `RenewalInv`: the channel that was stopped is still recorded for
the document in hand and the one that was created is recorded nowhere, so that neither
forgetting nor saving disturbs another document's.

`InstallationInv` follows a change through the processes.  `OwnersInv`: what is about to
replace a users file that has an owner has one as well, which is why even two processes
that race cannot take the last one away; it needs `PlacesInv` (what a process at each
stage holds) and, for a server that is starting, `LinksInv` and `GeneratedInv` (a file is
on setup's disk just when there is one, and a generated one has an owner).  `MeantInv`:
unless two processes raced, the text about to be written is the file with the job done
on it, from which `NothingIsLost` follows.  `ProjectInv`: a project a tool is about to
change is enabled.  `SetupInv`: setup has written its targets up to the one it is at, and
the keyring is as it was but for what was stored and not yet put back, which is what
`Restored` and `Clean` rely on.  `AuditInv`: no file holds a record that was never made, so
that the next one comes after all of them.  TLC checks all these invariants in the
runs of their modules.

`MergeInv` follows a version through the merge.  `MatchInv`: what is matched is equal and
in the order of both texts, and what is left to match lies between (`Searching`), so that a
block found there keeps the order.  `ChangesInv`: the changes that are collected are
`Faithful`, which is the centre of it.  Put in their places they make the version of the
base (`Onward`, line by line from the end), and a line that stays is between any two of
them, which is more than that they do not overlap: an insertion beside a replacement would
make `Overlaps` depend on which side it is.  `CompareInv`: every change that was compared is
accepted, and accepted ones do not overlap, so that when all were compared `Opposed` is
false.  `ApplyInv`: before some line the text is still the base, and from that line on it is
as `Onward` has it; taking the last change moves the line down, which is why the order
matters.  `Onward` is a recursive function; what it is on a stretch is proved from the
last line where it would not be so (`StretchStays`, `StretchGoes`), not by an induction
theorem.

There is one lemma per action, with one step per conjunct of the invariant.
`Markdown_proofs` finds the chunk of a changed line (`ChangeOfLine`) as the widest run
around it, from the least and the greatest line of a set; these come from the library's
well-foundedness of inclusion on finite sets, which needs no induction.

Every invariant that a passing run checks is proved.  Model-checked only: liveness
(`KeepsWholePromise`, `EditsReachGit`, `KeepsWholeFeed`, `StopEnds`, `EnabledIsServed`), which
is out of the prover's reach, as is `ENABLED`.

## Not modelled

- OAuth and provider SDK calls, prompts, DOCX rendering, command line and configuration
  parsing, logging, and the project files and their path resolution: they keep no state
  that interacts with the rest.
- `HttpRetry`: it sleeps and repeats a request.  `SyncDocument` has a call that succeeds or
  fails, with an effect or without; what it cannot show is a repeated `PUT` refused by its
  own precondition within one call, which a pass sees as a failure, or as a concurrent
  edit of its own.
- `StateStore.backup` and `integrity_check`, which are SQLite's and change nothing here.
- A run with Google in read-only mode: the runs set `google.write_mode` to `replace`.  The
  model has the switch (`GoogleReplace`) and the theorems of `SyncClouds_proofs` hold for
  both of its values; `LatestWins` does not, by its hypothesis `AllWritten`: the Google
  document then keeps its old text after GitHub moved on, and its next edit takes the
  GitHub edit back.
- The tools that write a cloud document directly (`push_google_doc`, `push_onedrive_file`):
  to a pass they are a person's edit while it runs.
- How many conflict branches a pull request that cannot be opened leaves.
- What a reader may take from the status: after a conflict that was resolved to what the
  branch already had nothing is changed that a pass would notice, and the status stays
  `conflict`.

What each component leaves out of its operations is in its note in `PROJECT.json`.

What could come next: a run for Google in read-only mode; the retries; and what the status
says.
