--------------------------- MODULE ProviderEvents ---------------------------
(***************************************************************************)
(* How `doccolab run` learns that a document changed in a cloud: Drive      *)
(* notifications through watched channels, OneDrive's delta cursors, and    *)
(* the poll that looks at everything.  `doccolab watch-google` renews the   *)
(* channels; the instance lock lets one of the two run at a time.           *)
(*                                                                         *)
(* What a pass does with a change is SyncDocument's matter: whether it      *)
(* exports the text, or records its version without (see the run            *)
(* lost_edit), is left open here.  A pass reads the versions of its         *)
(* document, any number of times, and saves what it has read in the row.    *)
(* A channel is fresh each time, a cursor is the number of changes of each  *)
(* document it is past, and a notification is its channel and message       *)
(* number, 0 for Google's "sync".                                           *)
(***************************************************************************)
EXTENDS Naturals, Sequences, FiniteSets

CONSTANTS
    None,        \* Python's None
    Documents,   \* the enabled documents: each is in Google and in OneDrive
    Groups,      \* the documents of each OneDrive drive: one cursor each
    MaxChannels, \* bound: channels ever created at Google
    MaxEdits,    \* bound: changes people make
    MaxFaults    \* bound: failed calls and killed processes

ASSUME NoneAssumption == None \notin Documents /\ None \notin Nat
ASSUME GroupsAssumption == UNION Groups = Documents
ASSUME FinitelyMany == IsFiniteSet(Documents)
ASSUME BoundsAssumption == MaxChannels \in Nat /\ MaxEdits \in Nat /\ MaxFaults \in Nat

Clouds == {"google", "microsoft"}
Channels == 1..MaxChannels
Notification == [channel : Channels, number : 0..MaxEdits]
Counts == [Clouds -> [Documents -> 0..MaxEdits]]

VARIABLES
    edited,    \* how often each document was changed in each cloud
    seen,      \* the version in its row, as the number of changes it stands for
    channel,   \* Google: the document each channel watches, while it does
    made,      \* Google: how many channels were created
    sent,      \* Google: the notifications there are
    watches,   \* the table google_watches: the document of a recorded channel
    events,    \* the table events: notifications remembered
    cursor,    \* the table cursors: the changes each drive's cursor is past
    process,   \* which command holds the instance lock
    agent,     \* where run_forever is
    queue,     \* SyncManager.queue
    stop,      \* stop_event; the webhook then serves no more
    renewal,   \* where renew_google_watches is
    owed,      \* history: documents queued, and no pass begun since
    edits, faults

cloudVars == <<edited, channel, made, sent, edits>>
tableVars == <<watches, events, cursor>>
runVars == <<agent, queue, stop, owed>>
vars == <<cloudVars, tableVars, runVars, seen, process, renewal, faults>>

\* changed and rest: the documents left in the round; groups: left in the poll;
\* doc and read: the document in a pass and the versions that pass has read.
Idle == [at |-> "none", changed |-> {}, rest |-> {}, groups |-> {}, doc |-> None,
         read |-> [c \in Clouds |-> None]]

\* old: the channel that was stopped and is still recorded; new: the one that was
\* created and is not recorded yet.
NoRenewal == [todo |-> {}, doc |-> None, old |-> None, new |-> None]

Init ==
    /\ edited = [c \in Clouds |-> [d \in Documents |-> 0]]
    /\ seen = edited
    /\ channel = [n \in Channels |-> None]
    /\ made = 0
    /\ sent = {}
    /\ watches = [n \in Channels |-> None]
    /\ events = {}
    /\ cursor = [d \in Documents |-> None]
    /\ process = "none"
    /\ agent = Idle
    /\ queue = <<>>
    /\ stop = FALSE
    /\ renewal = NoRenewal
    /\ owed = {}
    /\ edits = 0 /\ faults = 0

Fault == faults < MaxFaults /\ faults' = faults + 1

-----------------------------------------------------------------------------
(* The clouds.                                                              *)

\* Google notifies every channel of the document.  Whether it delivers is its own
\* affair: a channel that has expired is one whose notifications never come.
Edit(c, d) ==
    /\ edits < MaxEdits
    /\ edits' = edits + 1
    /\ edited' = [edited EXCEPT ![c][d] = @ + 1]
    /\ sent' = IF c = "google"
               THEN sent \cup {[channel |-> n, number |-> edits + 1] :
                               n \in {k \in Channels : channel[k] = d}}
               ELSE sent
    /\ UNCHANGED <<channel, made, tableVars, runVars, seen, process, renewal, faults>>

-----------------------------------------------------------------------------
(* The webhook.  Validation, remember_event and the task that queues the    *)
(* document follow one another on the event loop, with no await between.    *)

Accepted(m) == watches[m.channel] # None /\ m.number # 0 /\ m \notin events

\* The table is left alone: every delivery of a notification is taken.
DeliverSlip(m) ==
    /\ process = "run" /\ ~stop
    /\ Accepted(m)
    /\ queue' = Append(queue, watches[m.channel])
    /\ owed' = owed \cup {watches[m.channel]}
    /\ UNCHANGED <<cloudVars, tableVars, agent, stop, seen, process, renewal, faults>>

\* A notification is delivered any number of times: Google repeats what it got no
\* success for, its answer may be lost, and it gives up at some point.
Deliver(m) ==
    /\ process = "run" /\ ~stop
    /\ IF Accepted(m)
       THEN /\ events' = events \cup {m}
            /\ queue' = Append(queue, watches[m.channel])
            /\ owed' = owed \cup {watches[m.channel]}
       ELSE UNCHANGED <<events, queue, owed>>
    /\ UNCHANGED <<cloudVars, watches, cursor, agent, stop, seen, process, renewal, faults>>

-----------------------------------------------------------------------------
(* The process.                                                             *)

\* SyncManager's constructor forgets the events past their retention.
Prune == \E old \in SUBSET events : events' = events \ old

\* The agent waits for notifications and the poll from the start.
StartSlip ==
    /\ process = "none"
    /\ process' = "run"
    /\ Prune
    /\ agent' = [Idle EXCEPT !.at = "waiting"]
    /\ UNCHANGED <<cloudVars, watches, cursor, queue, stop, owed, seen, renewal, faults>>

\* run_forever begins with sync_all.
Start ==
    /\ process = "none"
    /\ process' = "run"
    /\ Prune
    /\ agent' = [Idle EXCEPT !.at = "first", !.rest = Documents]
    /\ UNCHANGED <<cloudVars, watches, cursor, queue, stop, owed, seen, renewal, faults>>

\* The server was told to stop, so _run_service stops the manager.
Stop ==
    /\ process = "run" /\ ~stop
    /\ stop' = TRUE
    /\ UNCHANGED <<cloudVars, tableVars, agent, queue, owed, seen, process, renewal, faults>>

\* What a process knows beside its database ends with it.
Forget == process' = "none" /\ agent' = Idle /\ queue' = <<>> /\ stop' = FALSE

\* _run_service ends with run_forever, whether that returned or raised.
Exit ==
    /\ process = "run" /\ agent.at = "ended"
    /\ Forget
    /\ UNCHANGED <<cloudVars, tableVars, owed, seen, renewal, faults>>

Crash ==
    /\ Fault
    /\ process # "none"
    /\ Forget
    /\ renewal' = NoRenewal
    /\ UNCHANGED <<cloudVars, tableVars, owed, seen>>

-----------------------------------------------------------------------------
(* run_forever and sync_document.                                           *)

Running(where) == process = "run" /\ agent.at = where /\ agent.doc = None

\* The top of the loop looks at the stop_event, the wait below it does not.
LoopTop == IF stop THEN "ended" ELSE "waiting"

Begin(d) ==
    /\ owed' = owed \ {d}
    /\ UNCHANGED <<cloudVars, tableVars, stop, seen, process, renewal, faults>>

FirstPass(d) ==
    /\ Running("first") /\ d \in agent.rest
    /\ agent' = [agent EXCEPT !.rest = @ \ {d}, !.doc = d]
    /\ Begin(d) /\ UNCHANGED queue

\* What the poll reported goes first.
RoundPass(d) ==
    /\ Running("round")
    /\ d \in IF agent.changed # {} THEN agent.changed ELSE agent.rest
    /\ agent' = [agent EXCEPT !.changed = @ \ {d}, !.rest = @ \ {d}, !.doc = d]
    /\ Begin(d) /\ UNCHANGED queue

QueuePass ==
    /\ Running("waiting") /\ queue # <<>>
    /\ queue' = Tail(queue)
    /\ agent' = [agent EXCEPT !.doc = Head(queue)]
    /\ Begin(Head(queue))

\* google_metadata and microsoft_metadata.  A change in one cloud between the two reads
\* is as good as one before or after both.  A pass that stages a publication, meets a
\* moved file or resumes what is pending reads them when it publishes.
ReadVersions ==
    /\ process = "run" /\ agent.doc # None
    /\ agent' = [agent EXCEPT !.read = [c \in Clouds |-> edited[c][agent.doc]]]
    /\ UNCHANGED <<cloudVars, tableVars, queue, stop, owed, seen, process, renewal, faults>>

HasRead == agent.doc # None /\ \A c \in Clouds : agent.read[c] # None

\* save_document: at the checkpoint, at the end and after a conflict the row gets the
\* versions read last, whether or not the pass exported their texts.
SaveVersions ==
    /\ process = "run" /\ HasRead
    /\ seen' = [c \in Clouds |-> [seen[c] EXCEPT ![agent.doc] = agent.read[c]]]
    /\ UNCHANGED <<cloudVars, tableVars, runVars, process, renewal, faults>>

\* After a document from the queue the loop goes to its top.
Passed == agent' = [agent EXCEPT !.at = IF @ = "waiting" THEN LoopTop ELSE @, !.doc = None,
                                 !.read = Idle.read]

\* A pass returns once the row has the versions it read last: they were there already
\* ("No changes detected"), or it saved them.
PassEnds ==
    /\ process = "run" /\ HasRead
    /\ \A c \in Clouds : seen[c][agent.doc] = agent.read[c]
    /\ Passed
    /\ UNCHANGED <<cloudVars, tableVars, queue, stop, owed, seen, process, renewal, faults>>

\* sync_document records the error and returns.  The row keeps what the pass saved.
PassFails ==
    /\ Fault
    /\ process = "run" /\ agent.doc # None
    /\ Passed
    /\ UNCHANGED <<cloudVars, tableVars, queue, stop, owed, seen, process, renewal>>

FirstEnds ==
    /\ Running("first") /\ agent.rest = {}
    /\ agent' = [agent EXCEPT !.at = "cursors", !.groups = Groups]
    /\ UNCHANGED <<cloudVars, tableVars, queue, stop, owed, seen, process, renewal, faults>>

\* The cursors of the other drives are lost.
LatestSlip(g) == cursor' = [d \in g |-> edited["microsoft"][d]]

\* The drive's newest cursor: poll_delta answers with no items.
Latest(g) == cursor' = [d \in Documents |-> IF d \in g THEN edited["microsoft"][d] ELSE cursor[d]]

\* initialize_microsoft_delta, one group.
InitializeDelta(g) ==
    /\ Running("cursors") /\ g \in agent.groups
    /\ IF \E d \in g : cursor[d] = None THEN Latest(g) ELSE UNCHANGED cursor
    /\ agent' = [agent EXCEPT !.groups = @ \ {g}]
    /\ UNCHANGED <<cloudVars, watches, events, queue, stop, owed, seen, process, renewal, faults>>

DeltaReady ==
    /\ Running("cursors") /\ agent.groups = {}
    /\ agent' = [agent EXCEPT !.at = LoopTop]
    /\ UNCHANGED <<cloudVars, tableVars, queue, stop, owed, seen, process, renewal, faults>>

\* Nothing came for poll_interval_seconds.
Timeout ==
    /\ Running("waiting") /\ queue = <<>>
    /\ agent' = [agent EXCEPT !.at = "polling", !.groups = Groups]
    /\ UNCHANGED <<cloudVars, tableVars, queue, stop, owed, seen, process, renewal, faults>>

\* poll_microsoft_delta, one group.  The cursor is saved before any pass; one that
\* is too old (410) is replaced by the newest, which reports nothing.
Poll(g) ==
    /\ Running("polling") /\ g \in agent.groups
    /\ Latest(g)
    /\ \/ /\ agent' = [agent EXCEPT !.groups = @ \ {g},
                          !.changed = @ \cup {d \in g : /\ cursor[d] # None
                                                        /\ edited["microsoft"][d] > cursor[d]}]
          /\ UNCHANGED faults
       \/ /\ Fault
          /\ agent' = [agent EXCEPT !.groups = @ \ {g}]
    /\ UNCHANGED <<cloudVars, watches, events, queue, stop, owed, seen, process, renewal>>

\* Any other error leaves run_forever.
DeltaFails ==
    /\ Fault
    /\ Running("cursors") \/ Running("polling")
    /\ agent.groups # {}
    /\ agent' = [Idle EXCEPT !.at = "ended"]
    /\ UNCHANGED <<cloudVars, tableVars, queue, stop, owed, seen, process, renewal>>

\* Only what the cursor reported is looked at.
PollEndsSlip ==
    /\ Running("polling") /\ agent.groups = {}
    /\ agent' = [agent EXCEPT !.at = "round"]
    /\ UNCHANGED <<cloudVars, tableVars, queue, stop, owed, seen, process, renewal, faults>>

PollEnds ==
    /\ Running("polling") /\ agent.groups = {}
    /\ agent' = [agent EXCEPT !.at = "round", !.rest = Documents \ agent.changed]
    /\ UNCHANGED <<cloudVars, tableVars, queue, stop, owed, seen, process, renewal, faults>>

RoundEnds ==
    /\ Running("round") /\ agent.changed = {} /\ agent.rest = {}
    /\ agent' = [agent EXCEPT !.at = LoopTop]
    /\ UNCHANGED <<cloudVars, tableVars, queue, stop, owed, seen, process, renewal, faults>>

-----------------------------------------------------------------------------
(* renew_google_watches.                                                    *)

Recorded(d) == {n \in Channels : watches[n] = d}

Renew ==
    /\ process = "none"
    /\ made + Cardinality(Documents) <= MaxChannels
    /\ process' = "renew"
    /\ Prune
    /\ renewal' = [NoRenewal EXCEPT !.todo = Documents]
    /\ UNCHANGED <<cloudVars, watches, cursor, runVars, seen, faults>>

RenewDocument(d) ==
    /\ process = "renew" /\ renewal.doc = None /\ d \in renewal.todo
    /\ renewal' = [renewal EXCEPT !.todo = @ \ {d}, !.doc = d]
    /\ UNCHANGED <<cloudVars, tableVars, runVars, seen, process, faults>>

\* Google may refuse: the channel has expired, or for any other reason.
StopWatch(n) ==
    /\ process = "renew" /\ renewal.doc # None /\ renewal.old = None /\ renewal.new = None
    /\ watches[n] = renewal.doc
    /\ \/ channel' = [channel EXCEPT ![n] = None]
       \/ UNCHANGED channel
    /\ renewal' = [renewal EXCEPT !.old = n]
    /\ UNCHANGED <<edited, made, sent, edits, tableVars, runVars, seen, process, faults>>

ForgetWatch ==
    /\ process = "renew" /\ renewal.old # None
    /\ watches' = [watches EXCEPT ![renewal.old] = None]
    /\ renewal' = [renewal EXCEPT !.old = None]
    /\ UNCHANGED <<cloudVars, events, cursor, runVars, seen, process, faults>>

\* The new channel comes first, and the old ones are looked for before it.
WatchFileSlip ==
    /\ process = "renew" /\ renewal.doc # None /\ renewal.old = None /\ renewal.new = None
    /\ made < MaxChannels
    /\ made' = made + 1
    /\ channel' = [channel EXCEPT ![made + 1] = renewal.doc]
    /\ sent' = sent \cup {[channel |-> made + 1, number |-> 0]}
    /\ renewal' = [renewal EXCEPT !.new = made + 1]
    /\ UNCHANGED <<edited, edits, tableVars, runVars, seen, process, faults>>

\* Google announces a new channel with a "sync" notification.
WatchFile ==
    /\ process = "renew" /\ renewal.doc # None /\ renewal.old = None /\ renewal.new = None
    /\ Recorded(renewal.doc) = {}
    /\ made < MaxChannels
    /\ made' = made + 1
    /\ channel' = [channel EXCEPT ![made + 1] = renewal.doc]
    /\ sent' = sent \cup {[channel |-> made + 1, number |-> 0]}
    /\ renewal' = [renewal EXCEPT !.new = made + 1]
    /\ UNCHANGED <<edited, edits, tableVars, runVars, seen, process, faults>>

SaveWatch ==
    /\ process = "renew" /\ renewal.new # None
    /\ watches' = [watches EXCEPT ![renewal.new] = renewal.doc]
    /\ renewal' = [renewal EXCEPT !.doc = None, !.new = None]
    /\ UNCHANGED <<cloudVars, events, cursor, runVars, seen, process, faults>>

\* The command ends: it is done, or watch_file raised.
RenewalEnds ==
    /\ process = "renew"
    /\ \/ renewal = NoRenewal /\ UNCHANGED faults
       \/ Fault /\ renewal.doc # None /\ renewal.old = None /\ renewal.new = None
    /\ process' = "none"
    /\ renewal' = NoRenewal
    /\ UNCHANGED <<cloudVars, tableVars, runVars, seen>>

-----------------------------------------------------------------------------

AgentStep ==
    \/ \E d \in Documents : FirstPass(d) \/ RoundPass(d)
    \/ QueuePass \/ ReadVersions \/ SaveVersions \/ PassEnds \/ FirstEnds \/ DeltaReady
    \/ \E g \in Groups : InitializeDelta(g) \/ Poll(g)
    \/ Timeout \/ PollEnds \/ RoundEnds \/ Exit

RenewalStep ==
    \/ \E d \in Documents : RenewDocument(d)
    \/ \E n \in Channels : StopWatch(n)
    \/ ForgetWatch \/ WatchFile \/ SaveWatch \/ RenewalEnds

Next ==
    \/ \E c \in Clouds, d \in Documents : Edit(c, d)
    \/ \E m \in sent : Deliver(m)
    \/ Start \/ Stop \/ Crash
    \/ AgentStep \/ PassFails \/ DeltaFails
    \/ Renew \/ RenewalStep

Spec == Init /\ [][Next]_vars

\* The service manager starts the agent again; nobody has to edit, to renew or to
\* stop, and Google need not deliver anything.
FairSpec == Spec /\ WF_vars(AgentStep) /\ WF_vars(RenewalStep) /\ WF_vars(Start)

=============================================================================
