---------------------------- MODULE EventsSafety ----------------------------
(***************************************************************************)
(* What must hold of ProviderEvents.                                        *)
(***************************************************************************)
EXTENDS ProviderEvents

Agent == [at : {"none", "first", "cursors", "waiting", "polling", "round", "ended"},
          changed : SUBSET Documents, rest : SUBSET Documents, groups : SUBSET Groups,
          doc : Documents \cup {None}, read : [Clouds -> 0..MaxEdits \cup {None}]]
Renewal == [todo : SUBSET Documents, doc : Documents \cup {None},
            old : Channels \cup {None}, new : Channels \cup {None}]

\* The agent's state is of the types its code gives it.
TypeOK ==
    /\ edited \in Counts /\ seen \in Counts
    /\ channel \in [Channels -> Documents \cup {None}]
    /\ made \in 0..MaxChannels
    /\ sent \subseteq Notification
    /\ watches \in [Channels -> Documents \cup {None}]
    /\ events \subseteq Notification
    /\ cursor \in [Documents -> 0..MaxEdits \cup {None}]
    /\ process \in {"none", "run", "renew"}
    /\ agent \in Agent
    /\ queue \in Seq(Documents)
    /\ stop \in BOOLEAN
    /\ renewal \in Renewal
    /\ owed \subseteq Documents
    /\ edits \in 0..MaxEdits /\ faults \in 0..MaxFaults

\* A notification is answered and remembered before the document is passed over, so
\* that Google will not send it again and the agent would drop it if Google did: as
\* long as the agent runs, such a document is still in its queue or in its round.
\* A killed process loses the queue, and the next one's first round has them all.
OwedIsQueued ==
    process = "run" /\ agent.at # "ended" =>
        owed \subseteq {queue[i] : i \in DOMAIN queue} \cup agent.rest

\* However often Google repeats a notification, the queue holds it once: every entry
\* stands for a remembered notification of its own.
QueueIsBounded == process = "run" => Len(queue) <= Cardinality(events)

\* A channel is recorded for the document it was created for, and a document has at
\* most one: a renewal that stopped the old one, or failed to, has forgotten it.  A
\* document the renewal is through with has exactly one.
WatchesAreOrderly ==
    /\ \A n \in Channels : watches[n] # None => n <= made /\ channel[n] \in {None, watches[n]}
    /\ \A d \in Documents : \A m, n \in Recorded(d) : m = n
    /\ process = "renew" =>
        \A d \in Documents \ (renewal.todo \cup {renewal.doc}) : Recorded(d) # {}

Feed == INSTANCE ChangeFeed

\* The version in a row is one its document had, and never gives way to an older one:
\* though it is saved some time after it was read, by passes that fail or are killed
\* before or after they save, and by the next process.
KeepsFeed == Feed!Safety

\* And it reaches every change: some pass reads the document's versions after the change
\* and saves them, though the notification is lost, dropped as repeated or forgotten by
\* a killed process, though the watch is gone, and though the delta cursor went past it.
\* Whether a pass has read the text of that version is another matter: EditsReachGit.
KeepsWholeFeed == Feed!Spec

-----------------------------------------------------------------------------
(* What makes the invariants hold, step by step.                            *)

\* No row is ahead of its document, and what a pass has read lies between the two: it
\* was read in this pass, after whatever was saved before.
CountsInv ==
    /\ \A c \in Clouds, d \in Documents : edited[c][d] <= edits /\ seen[c][d] <= edited[c][d]
    /\ \A c \in Clouds : agent.read[c] # None =>
           /\ agent.doc # None
           /\ seen[c][agent.doc] <= agent.read[c] /\ agent.read[c] <= edited[c][agent.doc]

\* Without a process there is no agent, and outside its rounds nothing is left of them.
LoopInv ==
    /\ process # "run" => agent = Idle /\ queue = <<>>
    /\ agent.at \in {"cursors", "waiting", "polling"} => agent.rest = {}
    /\ IsFiniteSet(events)
    /\ OwedIsQueued /\ QueueIsBounded

\* The channel that is stopped is still recorded, the one that was created is the only
\* one to come.
RenewalInv ==
    /\ process # "renew" => renewal = NoRenewal
    /\ renewal.doc = None => renewal.old = None /\ renewal.new = None
    /\ renewal.old # None => renewal.new = None /\ watches[renewal.old] = renewal.doc
    /\ renewal.new # None =>
        /\ renewal.new <= made /\ channel[renewal.new] = renewal.doc
        /\ Recorded(renewal.doc) = {} /\ watches[renewal.new] = None
    /\ WatchesAreOrderly

EventsInv == TypeOK /\ CountsInv /\ LoopInv /\ RenewalInv

=============================================================================
