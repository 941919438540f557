------------------------ MODULE EventsSafety_proofs -------------------------
(***************************************************************************)
(* EventsInv is inductive, so it holds of every agent, whatever the         *)
(* documents, the drives, the edits, the notifications and the faults; and  *)
(* each step of it is a step of ChangeFeed.                                 *)
(***************************************************************************)
EXTENDS EventsSafety, FiniteSetTheorems, TLAPS

-----------------------------------------------------------------------------
(* Parts that a step has nothing to do with.                                *)

LEMMA CountsSame ==
    ASSUME CountsInv, UNCHANGED <<edited, seen, edits>>,
           \/ \A c \in Clouds : agent'.read[c] = None
           \/ agent'.doc = agent.doc /\ agent'.read = agent.read
    PROVE  CountsInv'
BY DEF CountsInv

LEMMA LoopSame ==
    ASSUME LoopInv, UNCHANGED <<process, agent, queue, owed, events>>
    PROVE  LoopInv'
BY DEF LoopInv, OwedIsQueued, QueueIsBounded

LEMMA RenewalSame ==
    ASSUME RenewalInv, UNCHANGED <<channel, made, watches, process, renewal>>
    PROVE  RenewalInv'
BY DEF RenewalInv, WatchesAreOrderly, Recorded

\* What the agent has to do with the queue.
LEMMA IdleFacts ==
    /\ Idle \in Agent /\ Idle.at = "none" /\ Idle.rest = {} /\ Idle.doc = None
    /\ Idle.changed = {} /\ Idle.groups = {} /\ Idle.read = [c \in Clouds |-> None]
    /\ NoRenewal \in Renewal /\ NoRenewal.todo = {} /\ NoRenewal.doc = None
    /\ NoRenewal.old = None /\ NoRenewal.new = None
<1>1. [c \in Clouds |-> None] \in [Clouds -> 0..MaxEdits \cup {None}]
    OBVIOUS
<1>2. Idle \in Agent /\ Idle.at = "none" /\ Idle.rest = {} /\ Idle.doc = None
      /\ Idle.changed = {} /\ Idle.groups = {} /\ Idle.read = [c \in Clouds |-> None]
    BY <1>1 DEF Idle, Agent
<1>3. NoRenewal \in Renewal /\ NoRenewal.todo = {} /\ NoRenewal.doc = None
      /\ NoRenewal.old = None /\ NoRenewal.new = None
    BY DEF NoRenewal, Renewal
<1> QED BY <1>2, <1>3

-----------------------------------------------------------------------------
(* The clouds and the webhook.                                              *)

LEMMA EditKeeps ==
    ASSUME EventsInv, NEW c \in Clouds, NEW d \in Documents, Edit(c, d)
    PROVE  EventsInv'
<1>0. TypeOK /\ CountsInv /\ LoopInv /\ RenewalInv
    BY DEF EventsInv
<1>1. /\ edits < MaxEdits /\ edits' = edits + 1 /\ edited' = [edited EXCEPT ![c][d] = @ + 1]
      /\ UNCHANGED <<channel, made, tableVars, runVars, seen, process, renewal, faults>>
    BY DEF Edit
<1>2. \A b \in Clouds, e \in Documents :
          /\ edited[b][e] \in Nat /\ seen[b][e] \in Nat /\ edited[b][e] <= edits
          /\ edited'[b][e] = IF b = c /\ e = d THEN edited[b][e] + 1 ELSE edited[b][e]
    BY <1>0, <1>1 DEF TypeOK, Counts, CountsInv
<1>3. edits \in Nat /\ edits' \in 0..MaxEdits
    BY <1>0, <1>1, BoundsAssumption DEF TypeOK
<1>4. edited' \in Counts
  <2>1. \A b \in Clouds, e \in Documents : edited'[b][e] \in 0..MaxEdits
      BY <1>1, <1>2, <1>3, BoundsAssumption
  <2> QED BY <1>0, <1>1, <2>1 DEF TypeOK, Counts
<1>5. sent' \subseteq Notification
  <2>1. edits + 1 \in 0..MaxEdits
      BY <1>1, <1>3
  <2> QED BY <1>0, <2>1 DEF Edit, TypeOK, Notification
<1>6. TypeOK'
    BY <1>0, <1>1, <1>3, <1>4, <1>5 DEF TypeOK, tableVars, runVars
<1>7. CountsInv'
  <2>1. \A b \in Clouds, e \in Documents : edited'[b][e] <= edits' /\ seen'[b][e] <= edited'[b][e]
      BY <1>0, <1>1, <1>2, <1>3 DEF CountsInv
  <2>2. ASSUME NEW b \in Clouds, agent.read[b] # None
        PROVE  /\ agent.doc # None
               /\ seen[b][agent.doc] <= agent.read[b] /\ agent.read[b] <= edited'[b][agent.doc]
    <3>1. /\ agent.doc # None
          /\ seen[b][agent.doc] <= agent.read[b] /\ agent.read[b] <= edited[b][agent.doc]
        BY <1>0, <2>2 DEF CountsInv
    <3>2. agent.doc \in Documents /\ agent.read[b] \in Nat
        BY <1>0, <2>2, <3>1, BoundsAssumption DEF TypeOK, Agent
    <3> QED BY <1>2, <3>1, <3>2
  <2> QED BY <1>1, <2>1, <2>2 DEF CountsInv, runVars
<1>8. LoopInv' /\ RenewalInv'
    BY <1>0, <1>1, LoopSame, RenewalSame DEF tableVars, runVars
<1> QED BY <1>6, <1>7, <1>8 DEF EventsInv

LEMMA AppendFacts ==
    ASSUME NEW s \in Seq(Documents), NEW d \in Documents
    PROVE  /\ Append(s, d) \in Seq(Documents) /\ Len(Append(s, d)) = Len(s) + 1
           /\ Len(s) \in Nat
           /\ {Append(s, d)[i] : i \in DOMAIN Append(s, d)} = {s[i] : i \in DOMAIN s} \cup {d}
<1>1. /\ Append(s, d) \in Seq(Documents) /\ Len(Append(s, d)) = Len(s) + 1 /\ Len(s) \in Nat
      /\ DOMAIN s = 1..Len(s) /\ DOMAIN Append(s, d) = 1..(Len(s) + 1)
      /\ \A i \in 1..Len(s) : Append(s, d)[i] = s[i]
      /\ Append(s, d)[Len(s) + 1] = d
    OBVIOUS
<1>2. \A i \in 1..(Len(s) + 1) : i \in 1..Len(s) \/ i = Len(s) + 1
    BY <1>1
<1> QED BY <1>1, <1>2

LEMMA TailFacts ==
    ASSUME NEW s \in Seq(Documents), s # <<>>
    PROVE  /\ Head(s) \in Documents /\ Tail(s) \in Seq(Documents)
           /\ Len(Tail(s)) <= Len(s) /\ Len(s) \in Nat /\ Len(Tail(s)) \in Nat
           /\ {s[i] : i \in DOMAIN s} \subseteq {Tail(s)[i] : i \in DOMAIN Tail(s)} \cup {Head(s)}
<1>1. /\ Head(s) \in Documents /\ Tail(s) \in Seq(Documents) /\ Head(s) = s[1]
      /\ Len(s) \in Nat /\ Len(s) > 0 /\ Len(Tail(s)) = Len(s) - 1
      /\ DOMAIN s = 1..Len(s) /\ DOMAIN Tail(s) = 1..(Len(s) - 1)
      /\ \A i \in 1..(Len(s) - 1) : Tail(s)[i] = s[i + 1]
    OBVIOUS
<1>2. ASSUME NEW i \in 1..Len(s) PROVE s[i] \in {Tail(s)[j] : j \in DOMAIN Tail(s)} \cup {Head(s)}
  <2>1. CASE i = 1
      BY <2>1, <1>1
  <2>2. CASE i # 1
    <3>1. i - 1 \in 1..(Len(s) - 1) /\ (i - 1) + 1 = i
        BY <2>2, <1>1
    <3>2. Tail(s)[i - 1] = s[i]
        BY <3>1, <1>1
    <3> QED BY <3>1, <3>2, <1>1
  <2> QED BY <2>1, <2>2
<1> QED BY <1>1, <1>2

LEMMA DeliverKeeps ==
    ASSUME EventsInv, NEW m \in sent, Deliver(m)
    PROVE  EventsInv'
<1>0. TypeOK /\ CountsInv /\ LoopInv /\ RenewalInv
    BY DEF EventsInv
<1>1. /\ process = "run"
      /\ UNCHANGED <<cloudVars, watches, cursor, agent, stop, seen, process, renewal, faults>>
    BY DEF Deliver
<1>2. CountsInv' /\ RenewalInv'
    BY <1>0, <1>1, CountsSame, RenewalSame DEF cloudVars
<1>3. CASE ~Accepted(m)
  <2>1. UNCHANGED <<events, queue, owed>>
      BY <1>3 DEF Deliver
  <2>2. TypeOK'
      BY <1>0, <1>1, <2>1 DEF TypeOK, cloudVars
  <2>3. LoopInv'
      BY <1>0, <1>1, <2>1, LoopSame
  <2> QED BY <1>2, <2>2, <2>3 DEF EventsInv
<1>4. CASE Accepted(m)
  <2> DEFINE d == watches[m.channel]
  <2>1. /\ m \in Notification /\ d \in Documents /\ m \notin events
        /\ events' = events \cup {m} /\ queue' = Append(queue, d) /\ owed' = owed \cup {d}
    <3>1. m \in Notification /\ m.channel \in Channels
        BY <1>0 DEF TypeOK, Notification
    <3> QED BY <1>0, <1>4, <3>1 DEF TypeOK, Accepted, Deliver
  <2> HIDE DEF d
  <2>2. /\ queue' \in Seq(Documents) /\ Len(queue') = Len(queue) + 1 /\ Len(queue) \in Nat
        /\ {queue'[i] : i \in DOMAIN queue'} = {queue[i] : i \in DOMAIN queue} \cup {d}
    <3>1. queue \in Seq(Documents)
        BY <1>0 DEF TypeOK
    <3>2. /\ Append(queue, d) \in Seq(Documents) /\ Len(Append(queue, d)) = Len(queue) + 1
          /\ Len(queue) \in Nat
          /\ {Append(queue, d)[i] : i \in DOMAIN Append(queue, d)} =
                 {queue[i] : i \in DOMAIN queue} \cup {d}
        BY <3>1, <2>1, AppendFacts
    <3>3. queue' = Append(queue, d)
        BY <2>1
    <3> QED BY <3>2, <3>3
  <2>3. /\ IsFiniteSet(events') /\ Cardinality(events') = Cardinality(events) + 1
        /\ Cardinality(events) \in Nat
      BY <1>0, <2>1, FS_AddElement, FS_CardinalityType DEF LoopInv
  <2>4. TypeOK'
      BY <1>0, <1>1, <2>1, <2>2 DEF TypeOK, cloudVars
  <2>5. LoopInv'
    <3>1. QueueIsBounded' /\ IsFiniteSet(events)'
        BY <1>0, <1>1, <2>2, <2>3 DEF LoopInv, QueueIsBounded
    <3>2. OwedIsQueued'
        BY <1>0, <1>1, <2>1, <2>2 DEF LoopInv, OwedIsQueued
    <3> QED BY <1>0, <1>1, <3>1, <3>2 DEF LoopInv
  <2> QED BY <1>2, <2>4, <2>5 DEF EventsInv
<1> QED BY <1>3, <1>4

-----------------------------------------------------------------------------
(* The process.                                                             *)

LEMMA PruneFacts ==
    ASSUME TypeOK, LoopInv, Prune PROVE events' \subseteq Notification /\ IsFiniteSet(events')
<1>1. events' \in SUBSET events
    BY DEF Prune
<1> QED BY <1>1, FS_Subset DEF TypeOK, LoopInv

\* Without a process nothing is queued.
LEMMA EmptyIsBounded == Len(<<>>) = 0 /\ <<>> \in Seq(Documents)
OBVIOUS

LEMMA StartKeeps ==
    ASSUME EventsInv, Start PROVE EventsInv'
<1>0. TypeOK /\ CountsInv /\ LoopInv /\ RenewalInv
    BY DEF EventsInv
<1>1. /\ process = "none" /\ process' = "run" /\ agent' = [Idle EXCEPT !.at = "first", !.rest = Documents]
      /\ UNCHANGED <<cloudVars, watches, cursor, queue, stop, owed, seen, renewal, faults>>
    BY DEF Start
<1>2. events' \subseteq Notification /\ IsFiniteSet(events')
    BY <1>0, PruneFacts DEF Start
<1>3. agent' \in Agent /\ agent'.at = "first" /\ agent'.rest = Documents /\ agent'.doc = None
    BY <1>1, IdleFacts DEF Agent
<1>4. TypeOK'
    BY <1>0, <1>1, <1>2, <1>3 DEF TypeOK, cloudVars
<1>5. CountsInv'
  <2>1. \A c \in Clouds : agent'.read[c] = None
      BY <1>1, IdleFacts
  <2> QED BY <1>0, <1>1, <2>1, CountsSame DEF cloudVars
<1>6. LoopInv'
  <2>1. queue = <<>>
      BY <1>0, <1>1 DEF LoopInv
  <2>2. QueueIsBounded'
      BY <1>1, <1>2, <2>1, EmptyIsBounded, FS_CardinalityType DEF QueueIsBounded
  <2>3. OwedIsQueued'
      BY <1>0, <1>1, <1>3 DEF OwedIsQueued, TypeOK
  <2> QED BY <1>1, <1>2, <1>3, <2>2, <2>3 DEF LoopInv
<1>7. RenewalInv'
  <2>1. renewal = NoRenewal
      BY <1>0, <1>1 DEF RenewalInv
  <2> QED BY <1>0, <1>1, <2>1 DEF RenewalInv, WatchesAreOrderly, Recorded, cloudVars
<1> QED BY <1>4, <1>5, <1>6, <1>7 DEF EventsInv

LEMMA StopKeeps ==
    ASSUME EventsInv, Stop PROVE EventsInv'
<1>1. TypeOK'
    BY DEF EventsInv, Stop, TypeOK, cloudVars, tableVars
<1>2. CountsInv' /\ LoopInv' /\ RenewalInv'
    BY CountsSame, LoopSame, RenewalSame DEF EventsInv, Stop, cloudVars, tableVars
<1> QED BY <1>1, <1>2 DEF EventsInv

\* Exit and Crash: what the process knew is gone.
LEMMA ForgetKeeps ==
    ASSUME EventsInv, Exit \/ Crash PROVE EventsInv'
<1>0. TypeOK /\ CountsInv /\ LoopInv /\ RenewalInv
    BY DEF EventsInv
<1>1. /\ process' = "none" /\ agent' = Idle /\ queue' = <<>> /\ stop' = FALSE
      /\ UNCHANGED <<cloudVars, tableVars, owed, seen>>
    BY DEF Exit, Crash, Forget
<1>2. renewal' = NoRenewal /\ faults' \in 0..MaxFaults
    BY <1>0, BoundsAssumption DEF Exit, Crash, Fault, TypeOK, RenewalInv
<1>3. TypeOK'
    BY <1>0, <1>1, <1>2, IdleFacts, EmptyIsBounded DEF TypeOK, cloudVars, tableVars
<1>4. CountsInv'
    BY <1>0, <1>1, IdleFacts, CountsSame DEF cloudVars
<1>5. LoopInv'
    BY <1>0, <1>1, IdleFacts DEF LoopInv, OwedIsQueued, QueueIsBounded, tableVars
<1>6. RenewalInv'
    BY <1>0, <1>1, <1>2, IdleFacts
       DEF RenewalInv, WatchesAreOrderly, Recorded, cloudVars, tableVars
<1> QED BY <1>3, <1>4, <1>5, <1>6 DEF EventsInv

-----------------------------------------------------------------------------
(* run_forever.                                                             *)

\* A step of the agent leaves it this way; the clouds and the tables stay.
Goes(at, rest, doc, read) ==
    /\ agent' \in Agent
    /\ agent'.at = at /\ agent'.rest = rest /\ agent'.doc = doc /\ agent'.read = read
    /\ UNCHANGED <<cloudVars, watches, events, stop, process, renewal>>

LEMMA AgentKeeps ==
    ASSUME EventsInv, process = "run", NEW at, NEW rest, NEW doc, NEW read,
           Goes(at, rest, doc, read),
           cursor' \in [Documents -> 0..MaxEdits \cup {None}], faults' \in 0..MaxFaults,
           queue' \in Seq(Documents), Len(queue') <= Len(queue), owed' \subseteq Documents,
           seen' \in Counts, CountsInv',
           at \in {"cursors", "waiting", "polling"} => rest = {},
           at # "ended" => owed' \subseteq {queue'[i] : i \in DOMAIN queue'} \cup rest
    PROVE  EventsInv'
<1>0. TypeOK /\ CountsInv /\ LoopInv /\ RenewalInv
    BY DEF EventsInv
<1>1. TypeOK'
    BY <1>0 DEF Goes, TypeOK, cloudVars
<1>2. LoopInv'
  <2>1. Len(queue) \in Nat /\ Len(queue') \in Nat /\ Cardinality(events) \in Nat
      BY <1>0, FS_CardinalityType DEF TypeOK, LoopInv
  <2>2. QueueIsBounded'
      BY <1>0, <2>1 DEF LoopInv, QueueIsBounded, Goes
  <2>3. OwedIsQueued'
      BY DEF OwedIsQueued, Goes
  <2> QED BY <1>0, <2>2, <2>3 DEF LoopInv, Goes
<1>3. RenewalInv'
    BY <1>0, RenewalSame DEF Goes, cloudVars
<1> QED BY <1>1, <1>2, <1>3 DEF EventsInv

\* What the agent finds when it goes on.
LEMMA AgentFinds ==
    ASSUME EventsInv, process = "run"
    PROVE  /\ agent \in Agent /\ queue \in Seq(Documents) /\ owed \subseteq Documents
           /\ seen \in Counts /\ edited \in Counts /\ faults \in 0..MaxFaults
           /\ cursor \in [Documents -> 0..MaxEdits \cup {None}]
           /\ agent.at \in {"cursors", "waiting", "polling"} => agent.rest = {}
           /\ agent.at # "ended" => owed \subseteq {queue[i] : i \in DOMAIN queue} \cup agent.rest
           /\ Len(queue) \in Nat /\ CountsInv
           /\ \A c \in Clouds, d \in Documents :
                  seen[c][d] \in Nat /\ edited[c][d] \in 0..MaxEdits /\ seen[c][d] <= edited[c][d]
<1>1. TypeOK /\ CountsInv /\ LoopInv
    BY DEF EventsInv
<1>2. \A c \in Clouds, d \in Documents : seen[c][d] \in Nat /\ edited[c][d] \in 0..MaxEdits
    BY <1>1, BoundsAssumption DEF TypeOK, Counts
<1> QED BY <1>1, <1>2 DEF TypeOK, LoopInv, OwedIsQueued, CountsInv

\* Between the passes nothing is read.
LEMMA NothingRead ==
    ASSUME EventsInv, agent.doc = None PROVE \A c \in Clouds : agent.read[c] = None
BY DEF EventsInv, CountsInv

\* A pass begins: it has read nothing yet, and the document is owed no more.
LEMMA PassBegins ==
    ASSUME EventsInv, process = "run", agent.doc = None, NEW at, NEW rest, NEW d \in Documents,
           Goes(at, rest, d, agent.read), Begin(d),
           queue' \in Seq(Documents), Len(queue') <= Len(queue),
           at \in {"cursors", "waiting", "polling"} => rest = {},
           at # "ended" => owed \ {d} \subseteq {queue'[i] : i \in DOMAIN queue'} \cup rest
    PROVE  EventsInv'
<1>1. /\ seen \in Counts /\ faults \in 0..MaxFaults /\ owed \subseteq Documents
      /\ cursor \in [Documents -> 0..MaxEdits \cup {None}] /\ CountsInv
    BY AgentFinds
<1>2. UNCHANGED <<seen, cursor, faults, edited, edits>> /\ owed' = owed \ {d}
    BY DEF Begin, cloudVars, tableVars
<1>3. \A c \in Clouds : agent'.read[c] = None
    BY NothingRead DEF Goes
<1>4. CountsInv'
    BY <1>1, <1>2, <1>3, CountsSame
<1> QED BY <1>1, <1>2, <1>4, AgentKeeps

LEMMA FirstPassKeeps ==
    ASSUME EventsInv, NEW d \in Documents, FirstPass(d) \/ RoundPass(d) PROVE EventsInv'
<1>0. process = "run" /\ agent.doc = None /\ agent.at \in {"first", "round"}
    BY DEF FirstPass, RoundPass, Running
<1>1. agent \in Agent
    BY <1>0, AgentFinds
<1>2. Begin(d) /\ queue' = queue
    BY DEF FirstPass, RoundPass
<1>3. Goes(agent.at, agent.rest \ {d}, d, agent.read)
  <2>1. /\ agent' \in Agent /\ agent'.at = agent.at /\ agent'.rest = agent.rest \ {d}
        /\ agent'.doc = d /\ agent'.read = agent.read
    <3>1. CASE agent' = [agent EXCEPT !.rest = @ \ {d}, !.doc = d]
        BY <1>1, <3>1 DEF Agent
    <3>2. CASE agent' = [agent EXCEPT !.changed = @ \ {d}, !.rest = @ \ {d}, !.doc = d]
        BY <1>1, <3>2 DEF Agent
    <3> QED BY <3>1, <3>2 DEF FirstPass, RoundPass
  <2> QED BY <1>2, <2>1 DEF Begin, Goes, tableVars
<1> QED BY <1>0, <1>2, <1>3, PassBegins, AgentFinds

LEMMA QueuePassKeeps ==
    ASSUME EventsInv, QueuePass PROVE EventsInv'
<1> DEFINE d == Head(queue)
<1>0. /\ process = "run" /\ agent.doc = None /\ agent.at = "waiting" /\ queue # <<>>
      /\ Begin(d) /\ queue' = Tail(queue) /\ agent' = [agent EXCEPT !.doc = d]
    BY DEF QueuePass, Running
<1>1. /\ agent \in Agent /\ queue \in Seq(Documents) /\ agent.rest = {}
      /\ owed \subseteq {queue[i] : i \in DOMAIN queue} \cup agent.rest
    BY <1>0, AgentFinds
<1>2. /\ d \in Documents /\ Tail(queue) \in Seq(Documents) /\ Len(Tail(queue)) <= Len(queue)
      /\ {queue[i] : i \in DOMAIN queue} \subseteq
             {Tail(queue)[i] : i \in DOMAIN Tail(queue)} \cup {d}
    BY <1>0, <1>1, TailFacts
<1> HIDE DEF d
<1>4. Goes("waiting", {}, d, agent.read)
  <2>1. /\ agent' \in Agent /\ agent'.at = "waiting" /\ agent'.rest = {}
        /\ agent'.doc = d /\ agent'.read = agent.read
      BY <1>0, <1>1, <1>2 DEF Agent
  <2> QED BY <1>0, <2>1 DEF Begin, Goes, tableVars
<1>5. owed \ {d} \subseteq {Tail(queue)[i] : i \in DOMAIN Tail(queue)} \cup {}
    BY <1>1, <1>2
<1>6. owed \ {d} \subseteq {queue'[i] : i \in DOMAIN queue'} \cup {}
    BY <1>0, <1>5
<1> QED BY <1>0, <1>2, <1>4, <1>6, PassBegins

\* What a pass under way has to do with.
LEMMA PassFinds ==
    ASSUME EventsInv, process = "run", agent.doc # None
    PROVE  /\ agent \in Agent /\ agent.doc \in Documents
           /\ agent.read \in [Clouds -> 0..MaxEdits \cup {None}]
           /\ \A c \in Clouds : agent.read[c] # None =>
                  /\ agent.read[c] \in 0..MaxEdits
                  /\ seen[c][agent.doc] <= agent.read[c]
                  /\ agent.read[c] <= edited[c][agent.doc]
BY AgentFinds DEF Agent, CountsInv

LEMMA ReadVersionsKeeps ==
    ASSUME EventsInv, ReadVersions PROVE EventsInv'
<1> DEFINE d == agent.doc
           r == [c \in Clouds |-> edited[c][d]]
<1>0. /\ process = "run" /\ d # None /\ agent' = [agent EXCEPT !.read = r]
      /\ UNCHANGED <<cloudVars, tableVars, queue, stop, owed, seen, process, renewal, faults>>
    BY DEF ReadVersions
<1>1. agent \in Agent /\ d \in Documents
    BY <1>0, PassFinds
<1>2. \A c \in Clouds :
          seen[c][d] \in Nat /\ edited[c][d] \in 0..MaxEdits /\ seen[c][d] <= edited[c][d]
    BY <1>0, <1>1, AgentFinds
<1>3. r \in [Clouds -> 0..MaxEdits \cup {None}] /\ \A c \in Clouds : r[c] = edited[c][d]
    BY <1>2
<1> HIDE DEF r
<1>4. Goes(agent.at, agent.rest, d, r) /\ agent'.doc = d /\ agent'.read = r
  <2>1. /\ agent' \in Agent /\ agent'.at = agent.at /\ agent'.rest = agent.rest
        /\ agent'.doc = d /\ agent'.read = r
      BY <1>0, <1>1, <1>3 DEF Agent
  <2> QED BY <1>0, <2>1 DEF Goes, tableVars
<1>5. CountsInv'
  <2>1. CountsInv /\ UNCHANGED <<edited, seen, edits>>
      BY <1>0, AgentFinds DEF cloudVars
  <2>2. \A c \in Clouds : seen[c][d] <= r[c] /\ r[c] <= edited[c][d]
      BY <1>2, <1>3
  <2> QED BY <1>0, <1>4, <2>1, <2>2 DEF CountsInv
<1>6. /\ queue \in Seq(Documents) /\ owed \subseteq Documents /\ seen \in Counts
      /\ faults \in 0..MaxFaults /\ cursor \in [Documents -> 0..MaxEdits \cup {None}]
      /\ agent.at \in {"cursors", "waiting", "polling"} => agent.rest = {}
      /\ agent.at # "ended" => owed \subseteq {queue[i] : i \in DOMAIN queue} \cup agent.rest
      /\ Len(queue) \in Nat
    BY <1>0, AgentFinds
<1> HIDE DEF d
<1> QED BY <1>0, <1>4, <1>5, <1>6, AgentKeeps DEF tableVars

\* The row gets what the pass has read.
LEMMA SaveFacts ==
    ASSUME EventsInv, SaveVersions
    PROVE  /\ seen' \in Counts
           /\ \A c \in Clouds, e \in Documents : seen'[c][e] =
                  IF e = agent.doc THEN agent.read[c] ELSE seen[c][e]
<1>1. /\ process = "run" /\ agent.doc # None /\ \A c \in Clouds : agent.read[c] # None
      /\ seen' = [c \in Clouds |-> [seen[c] EXCEPT ![agent.doc] = agent.read[c]]]
    BY DEF SaveVersions, HasRead
<1>2. agent.doc \in Documents /\ \A c \in Clouds : agent.read[c] \in 0..MaxEdits
    BY <1>1, PassFinds
<1>3. seen \in [Clouds -> [Documents -> 0..MaxEdits]]
    BY <1>1, AgentFinds DEF Counts
<1>4. \A c \in Clouds : [seen[c] EXCEPT ![agent.doc] = agent.read[c]] \in [Documents -> 0..MaxEdits]
    BY <1>2, <1>3
<1> QED BY <1>1, <1>2, <1>3, <1>4 DEF Counts

LEMMA SaveVersionsKeeps ==
    ASSUME EventsInv, SaveVersions PROVE EventsInv'
<1> DEFINE d == agent.doc
<1>0. /\ process = "run" /\ d # None /\ \A c \in Clouds : agent.read[c] # None
      /\ UNCHANGED <<cloudVars, tableVars, runVars, process, renewal, faults>>
    BY DEF SaveVersions, HasRead
<1>1. /\ agent \in Agent /\ d \in Documents
      /\ \A c \in Clouds : agent.read[c] \in 0..MaxEdits /\ agent.read[c] <= edited[c][d]
    BY <1>0, PassFinds
<1>2. seen' \in Counts /\ \A c \in Clouds, e \in Documents : seen'[c][e] =
                  IF e = d THEN agent.read[c] ELSE seen[c][e]
    BY SaveFacts
<1>3. /\ queue \in Seq(Documents) /\ owed \subseteq Documents /\ CountsInv
      /\ faults \in 0..MaxFaults /\ cursor \in [Documents -> 0..MaxEdits \cup {None}]
      /\ agent.at \in {"cursors", "waiting", "polling"} => agent.rest = {}
      /\ agent.at # "ended" => owed \subseteq {queue[i] : i \in DOMAIN queue} \cup agent.rest
      /\ Len(queue) \in Nat
    BY <1>0, AgentFinds
<1>4. agent' = agent /\ queue' = queue /\ owed' = owed /\ cursor' = cursor
      /\ UNCHANGED <<edited, edits>>
    BY <1>0 DEF runVars, tableVars, cloudVars
<1>5. Goes(agent.at, agent.rest, d, agent.read)
    BY <1>0, <1>1, <1>4 DEF Goes, tableVars, runVars
<1>6. CountsInv'
  <2>1. \A c \in Clouds, e \in Documents : seen'[c][e] <= edited[c][e]
      BY <1>1, <1>2, <1>3 DEF CountsInv
  <2>2. \A c \in Clouds : seen'[c][d] <= agent.read[c]
      BY <1>1, <1>2
  <2> QED BY <1>0, <1>1, <1>3, <1>4, <2>1, <2>2 DEF CountsInv
<1> HIDE DEF d
<1> QED BY <1>0, <1>2, <1>3, <1>4, <1>5, <1>6, AgentKeeps

\* LoopTop is one of two places, neither of which has anything left.
LEMMA PassedFacts ==
    ASSUME agent \in Agent, Passed, agent.at = "waiting" => agent.rest = {}
    PROVE  /\ agent' \in Agent /\ agent'.rest = agent.rest /\ agent'.doc = None
           /\ \A c \in Clouds : agent'.read[c] = None
           /\ \/ agent'.at = agent.at
              \/ agent'.at = "ended"
<1>1. agent' = [agent EXCEPT !.at = IF agent.at = "waiting" THEN LoopTop ELSE agent.at,
                             !.doc = None, !.read = Idle.read]
    BY DEF Passed
<1>2. /\ Idle.read \in [Clouds -> 0..MaxEdits \cup {None}]
      /\ \A c \in Clouds : Idle.read[c] = None
    BY IdleFacts DEF Agent
<1>3. LoopTop \in {"ended", "waiting"}
    BY DEF LoopTop
<1> QED BY <1>1, <1>2, <1>3 DEF Agent

LEMMA PassEndsKeeps ==
    ASSUME EventsInv, PassEnds \/ PassFails PROVE EventsInv'
<1>0. /\ process = "run" /\ agent.doc # None /\ Passed
      /\ UNCHANGED <<cloudVars, tableVars, queue, stop, owed, seen, process, renewal>>
    BY DEF PassEnds, PassFails, HasRead
<1>1. /\ agent \in Agent /\ queue \in Seq(Documents) /\ owed \subseteq Documents
      /\ cursor \in [Documents -> 0..MaxEdits \cup {None}]
      /\ agent.at \in {"cursors", "waiting", "polling"} => agent.rest = {}
      /\ agent.at # "ended" => owed \subseteq {queue[i] : i \in DOMAIN queue} \cup agent.rest
      /\ Len(queue) \in Nat /\ CountsInv /\ seen \in Counts /\ faults \in 0..MaxFaults
    BY <1>0, AgentFinds
<1>2. /\ agent' \in Agent /\ agent'.rest = agent.rest /\ agent'.doc = None
      /\ agent'.at = agent.at \/ agent'.at = "ended"
      /\ \A c \in Clouds : agent'.read[c] = None
    BY <1>0, <1>1, PassedFacts
<1>3. Goes(agent'.at, agent'.rest, agent'.doc, agent'.read)
    BY <1>0, <1>2 DEF Goes, tableVars
<1>4. faults' \in 0..MaxFaults
    BY <1>1, BoundsAssumption DEF PassEnds, PassFails, Fault
<1>5. CountsInv'
    BY <1>0, <1>1, <1>2, CountsSame DEF cloudVars
<1>6. agent'.at # "ended" => owed' \subseteq {queue'[i] : i \in DOMAIN queue'} \cup agent'.rest
    BY <1>0, <1>1, <1>2
<1>7. agent'.at \in {"cursors", "waiting", "polling"} => agent'.rest = {}
    BY <1>1, <1>2
<1> QED BY <1>0, <1>1, <1>3, <1>4, <1>5, <1>6, <1>7, AgentKeeps DEF tableVars

\* Between the passes the agent goes on with no document in hand.
LEMMA BetweenPasses ==
    ASSUME EventsInv, process = "run", NEW at, NEW rest, Goes(at, rest, agent.doc, agent.read),
           agent.doc = None,
           cursor' \in [Documents -> 0..MaxEdits \cup {None}], faults' \in 0..MaxFaults,
           UNCHANGED <<queue, owed, seen>>,
           at \in {"cursors", "waiting", "polling"} => rest = {},
           at # "ended" => owed \subseteq {queue[i] : i \in DOMAIN queue} \cup rest
    PROVE  EventsInv'
<1>1. /\ queue \in Seq(Documents) /\ owed \subseteq Documents /\ Len(queue) \in Nat
      /\ CountsInv /\ seen \in Counts
    BY AgentFinds
<1>2. CountsInv'
    BY <1>1, CountsSame DEF Goes, cloudVars
<1> QED BY <1>1, <1>2, AgentKeeps

LEMMA LoopStepKeeps ==
    ASSUME EventsInv, FirstEnds \/ DeltaReady \/ Timeout \/ PollEnds \/ RoundEnds
    PROVE  EventsInv'
<1>0. /\ process = "run" /\ agent.doc = None
      /\ UNCHANGED <<cloudVars, tableVars, queue, stop, owed, seen, process, renewal, faults>>
    BY DEF FirstEnds, DeltaReady, Timeout, PollEnds, RoundEnds, Running
<1>1. /\ agent \in Agent /\ faults \in 0..MaxFaults /\ owed \subseteq Documents
      /\ cursor \in [Documents -> 0..MaxEdits \cup {None}]
      /\ agent.at \in {"cursors", "waiting", "polling"} => agent.rest = {}
      /\ agent.at # "ended" => owed \subseteq {queue[i] : i \in DOMAIN queue} \cup agent.rest
    BY <1>0, AgentFinds
<1>2. LoopTop \in {"ended", "waiting"}
    BY DEF LoopTop
<1>3. /\ agent' \in Agent /\ agent'.doc = agent.doc /\ agent'.read = agent.read
      /\ \/ PollEnds /\ agent'.at = "round" /\ agent'.rest = Documents \ agent.changed
         \/ /\ agent'.at \in {"cursors", "polling", "ended", "waiting"}
            /\ agent'.rest = agent.rest /\ agent.rest = {} /\ agent.at # "ended"
  <2>1. CASE FirstEnds
    <3>1. agent' = [agent EXCEPT !.at = "cursors", !.groups = Groups] /\ agent.rest = {}
          /\ agent.at = "first"
        BY <2>1 DEF FirstEnds, Running
    <3> QED BY <1>1, <3>1 DEF Agent
  <2>2. CASE DeltaReady \/ RoundEnds
    <3>1. agent' = [agent EXCEPT !.at = LoopTop] /\ agent.rest = {} /\ agent.at # "ended"
        BY <1>1, <2>2 DEF DeltaReady, RoundEnds, Running
    <3> QED BY <1>1, <1>2, <3>1 DEF Agent
  <2>3. CASE Timeout
    <3>1. agent' = [agent EXCEPT !.at = "polling", !.groups = Groups] /\ agent.rest = {}
          /\ agent.at = "waiting"
        BY <1>1, <2>3 DEF Timeout, Running
    <3> QED BY <1>1, <3>1 DEF Agent
  <2>4. CASE PollEnds
    <3>1. agent' = [agent EXCEPT !.at = "round", !.rest = Documents \ agent.changed]
        BY <2>4 DEF PollEnds
    <3> QED BY <1>1, <2>4, <3>1 DEF Agent
  <2> QED BY <2>1, <2>2, <2>3, <2>4
<1>4. Goes(agent'.at, agent'.rest, agent.doc, agent.read)
    BY <1>0, <1>3 DEF Goes, tableVars
<1>5. agent'.at # "ended" => owed \subseteq {queue[i] : i \in DOMAIN queue} \cup agent'.rest
  <2>1. PollEnds => agent.at = "polling"
      BY DEF PollEnds, Running
  <2> QED BY <1>1, <1>3, <2>1
<1>6. agent'.at \in {"cursors", "waiting", "polling"} => agent'.rest = {}
    BY <1>3
<1> QED BY <1>0, <1>1, <1>4, <1>5, <1>6, BetweenPasses DEF tableVars

LEMMA LatestFacts ==
    ASSUME TypeOK, NEW g, Latest(g) PROVE cursor' \in [Documents -> 0..MaxEdits \cup {None}]
<1>1. \A d \in Documents : edited["microsoft"][d] \in 0..MaxEdits
    BY DEF TypeOK, Counts, Clouds
<1> QED BY <1>1 DEF Latest, TypeOK

LEMMA DeltaKeeps ==
    ASSUME EventsInv, (\E g \in Groups : InitializeDelta(g) \/ Poll(g)) \/ DeltaFails
    PROVE  EventsInv'
<1>0. /\ process = "run" /\ agent.doc = None /\ agent.at \in {"cursors", "polling"}
      /\ UNCHANGED <<cloudVars, watches, events, queue, stop, owed, seen, process, renewal>>
    BY DEF InitializeDelta, Poll, DeltaFails, Running, tableVars
<1>1. /\ agent \in Agent /\ faults \in 0..MaxFaults /\ owed \subseteq Documents
      /\ cursor \in [Documents -> 0..MaxEdits \cup {None}]
      /\ agent.rest = {}
      /\ owed \subseteq {queue[i] : i \in DOMAIN queue} \cup agent.rest
    BY <1>0, AgentFinds
<1>2. faults' \in 0..MaxFaults
  <2>1. faults' = faults \/ Fault
    <3>1. CASE \E g \in Groups : InitializeDelta(g) \/ Poll(g)
        BY <3>1 DEF InitializeDelta, Poll
    <3> QED BY <3>1 DEF DeltaFails
  <2> QED BY <1>1, <2>1, BoundsAssumption DEF Fault
<1>3. CASE \E g \in Groups : InitializeDelta(g) \/ Poll(g)
  <2>0. PICK g \in Groups : InitializeDelta(g) \/ Poll(g)
      BY <1>3
  <2>1. cursor' \in [Documents -> 0..MaxEdits \cup {None}]
      BY <1>1, <2>0, LatestFacts DEF InitializeDelta, Poll, EventsInv
  <2>2. g \subseteq Documents
      BY GroupsAssumption
  <2>3. /\ agent' \in Agent /\ agent'.at = agent.at /\ agent'.rest = agent.rest
        /\ agent'.doc = agent.doc /\ agent'.read = agent.read
    <3>1. CASE agent' = [agent EXCEPT !.groups = @ \ {g}]
        BY <1>1, <3>1 DEF Agent
    <3>2. CASE agent' = [agent EXCEPT !.groups = @ \ {g},
                            !.changed = @ \cup {d \in g : /\ cursor[d] # None
                                                          /\ edited["microsoft"][d] > cursor[d]}]
      <4>1. agent.changed \cup {d \in g : cursor[d] # None /\ edited["microsoft"][d] > cursor[d]}
                \in SUBSET Documents
          BY <1>1, <2>2 DEF Agent
      <4> QED BY <1>1, <3>2, <4>1 DEF Agent
    <3> QED BY <2>0, <3>1, <3>2 DEF InitializeDelta, Poll
  <2>4. Goes(agent.at, agent.rest, agent.doc, agent.read)
      BY <1>0, <2>3 DEF Goes
  <2> QED BY <1>0, <1>1, <1>2, <2>1, <2>4, BetweenPasses
<1>4. CASE DeltaFails
  <2>1. agent' = [Idle EXCEPT !.at = "ended"] /\ cursor' = cursor
      BY <1>4 DEF DeltaFails, tableVars
  <2>2. /\ agent' \in Agent /\ agent'.at = "ended" /\ agent'.doc = None
        /\ \A c \in Clouds : agent'.read[c] = None
      BY <2>1, IdleFacts DEF Agent
  <2>3. Goes("ended", agent'.rest, None, agent'.read)
      BY <1>0, <2>2 DEF Goes
  <2>4. CountsInv'
      BY <1>0, <2>2, CountsSame DEF EventsInv, cloudVars
  <2>5. Len(queue) \in Nat /\ seen \in Counts /\ queue \in Seq(Documents)
      BY <1>0, AgentFinds
  <2> QED BY <1>0, <1>1, <1>2, <2>1, <2>3, <2>4, <2>5, AgentKeeps
<1> QED BY <1>3, <1>4

-----------------------------------------------------------------------------
(* renew_google_watches.                                                    *)

LEMMA RenewKeeps ==
    ASSUME EventsInv, Renew PROVE EventsInv'
<1>0. TypeOK /\ CountsInv /\ LoopInv /\ RenewalInv
    BY DEF EventsInv
<1>1. /\ process = "none" /\ process' = "renew" /\ renewal' = [NoRenewal EXCEPT !.todo = Documents]
      /\ UNCHANGED <<cloudVars, watches, cursor, runVars, seen, faults>>
    BY DEF Renew
<1>2. events' \subseteq Notification /\ IsFiniteSet(events')
    BY <1>0, PruneFacts DEF Renew
<1>3. /\ renewal' \in Renewal /\ renewal'.todo = Documents /\ renewal'.doc = None
      /\ renewal'.old = None /\ renewal'.new = None
    BY <1>1, IdleFacts DEF Renewal
<1>4. TypeOK'
    BY <1>0, <1>1, <1>2, <1>3 DEF TypeOK, cloudVars, runVars
<1>5. CountsInv'
    BY <1>0, <1>1, CountsSame DEF cloudVars, runVars
<1>6. LoopInv'
    BY <1>0, <1>1, <1>2 DEF LoopInv, OwedIsQueued, QueueIsBounded, runVars
<1>7. RenewalInv'
    BY <1>0, <1>1, <1>3 DEF RenewalInv, WatchesAreOrderly, Recorded, cloudVars
<1> QED BY <1>4, <1>5, <1>6, <1>7 DEF EventsInv

\* The steps of a renewal change nothing the agent has to do with.
RenewalOnly == UNCHANGED <<edited, seen, edits, agent, queue, owed, events, cursor, stop>>

LEMMA RenewalKeeps ==
    ASSUME EventsInv, RenewalOnly, process = "renew", process' \in {"none", "renew"},
           channel' \in [Channels -> Documents \cup {None}], made' \in 0..MaxChannels,
           sent' \subseteq Notification, watches' \in [Channels -> Documents \cup {None}],
           renewal' \in Renewal, faults' \in 0..MaxFaults, RenewalInv'
    PROVE  EventsInv'
<1>0. TypeOK /\ CountsInv /\ LoopInv
    BY DEF EventsInv
<1>1. TypeOK'
    BY <1>0 DEF TypeOK, RenewalOnly
<1>2. CountsInv'
    BY <1>0, CountsSame DEF RenewalOnly
<1>3. LoopInv'
    BY <1>0 DEF LoopInv, OwedIsQueued, QueueIsBounded, RenewalOnly
<1> QED BY <1>1, <1>2, <1>3 DEF EventsInv

\* What a renewal finds when it goes on.
LEMMA RenewalFinds ==
    ASSUME EventsInv
    PROVE  /\ channel \in [Channels -> Documents \cup {None}] /\ made \in 0..MaxChannels
           /\ sent \subseteq Notification /\ watches \in [Channels -> Documents \cup {None}]
           /\ renewal \in Renewal /\ faults \in 0..MaxFaults
           /\ process \in {"none", "run", "renew"}
           /\ renewal.doc \in Documents \cup {None} /\ renewal.todo \subseteq Documents
           /\ renewal.old \in Channels \cup {None} /\ renewal.new \in Channels \cup {None}
           /\ RenewalInv
BY DEF EventsInv, TypeOK, Renewal

LEMMA ChannelsAreNumbers == Channels \subseteq Nat /\ None \notin Channels
BY NoneAssumption, BoundsAssumption DEF Channels

LEMMA RenewDocumentKeeps ==
    ASSUME EventsInv, NEW d \in Documents, RenewDocument(d) PROVE EventsInv'
<1>0. /\ process = "renew" /\ renewal.doc = None /\ d \in renewal.todo
      /\ renewal' = [renewal EXCEPT !.todo = @ \ {d}, !.doc = d]
      /\ UNCHANGED <<cloudVars, tableVars, runVars, seen, process, faults>>
    BY DEF RenewDocument
<1>1. /\ renewal \in Renewal /\ renewal.todo \subseteq Documents /\ RenewalInv
      /\ renewal.old = None /\ renewal.new = None
    BY <1>0, RenewalFinds DEF RenewalInv
<1>2. /\ renewal' \in Renewal /\ renewal'.todo = renewal.todo \ {d} /\ renewal'.doc = d
      /\ renewal'.old = None /\ renewal'.new = None
    BY <1>0, <1>1 DEF Renewal
<1>3. WatchesAreOrderly'
  <2>1. UNCHANGED <<watches, channel, made, process>>
      BY <1>0 DEF cloudVars, tableVars
  <2>2. Documents \ (renewal'.todo \cup {renewal'.doc}) \subseteq
            Documents \ (renewal.todo \cup {renewal.doc})
      BY <1>0, <1>2, NoneAssumption
  <2>3. \A e \in Documents : Recorded(e)' = Recorded(e)
      BY <2>1 DEF Recorded
  <2> QED BY <1>1, <2>1, <2>2, <2>3 DEF RenewalInv, WatchesAreOrderly
<1>4. RenewalInv'
    BY <1>0, <1>2, <1>3, NoneAssumption DEF RenewalInv
<1> QED BY <1>0, <1>2, <1>4, RenewalFinds, RenewalKeeps
        DEF RenewalOnly, cloudVars, tableVars, runVars

LEMMA StopWatchKeeps ==
    ASSUME EventsInv, NEW n \in Channels, StopWatch(n) PROVE EventsInv'
<1>0. /\ process = "renew" /\ renewal.doc # None /\ renewal.old = None /\ renewal.new = None
      /\ watches[n] = renewal.doc /\ renewal' = [renewal EXCEPT !.old = n]
      /\ channel' = [channel EXCEPT ![n] = None] \/ channel' = channel
      /\ UNCHANGED <<edited, made, sent, edits, tableVars, runVars, seen, process, faults>>
    BY DEF StopWatch
<1>1. /\ renewal \in Renewal /\ RenewalInv /\ channel \in [Channels -> Documents \cup {None}]
      /\ n # None
    BY RenewalFinds, ChannelsAreNumbers
<1>2. /\ renewal' \in Renewal /\ renewal'.todo = renewal.todo /\ renewal'.doc = renewal.doc
      /\ renewal'.old = n /\ renewal'.new = None
    BY <1>0, <1>1 DEF Renewal
<1>3. /\ channel' \in [Channels -> Documents \cup {None}]
      /\ \A k \in Channels : channel'[k] \in {None, channel[k]}
    BY <1>0, <1>1
<1>4. WatchesAreOrderly'
  <2>1. watches' = watches /\ made' = made /\ process' = process
      BY <1>0 DEF tableVars
  <2> QED BY <1>1, <1>2, <1>3, <2>1 DEF RenewalInv, WatchesAreOrderly, Recorded
<1>5. RenewalInv'
    BY <1>0, <1>1, <1>2, <1>4 DEF RenewalInv, tableVars
<1> QED BY <1>0, <1>2, <1>3, <1>5, RenewalFinds, RenewalKeeps
        DEF RenewalOnly, tableVars, runVars

LEMMA ForgetWatchKeeps ==
    ASSUME EventsInv, ForgetWatch PROVE EventsInv'
<1>0. /\ process = "renew" /\ renewal.old # None
      /\ watches' = [watches EXCEPT ![renewal.old] = None]
      /\ renewal' = [renewal EXCEPT !.old = None]
      /\ UNCHANGED <<cloudVars, events, cursor, runVars, seen, process, faults>>
    BY DEF ForgetWatch
<1>1. /\ renewal \in Renewal /\ RenewalInv /\ watches \in [Channels -> Documents \cup {None}]
      /\ renewal.old \in Channels /\ renewal.new = None /\ renewal.doc # None
      /\ watches[renewal.old] = renewal.doc
    BY <1>0, RenewalFinds DEF RenewalInv
<1>2. /\ renewal' \in Renewal /\ renewal'.todo = renewal.todo /\ renewal'.doc = renewal.doc
      /\ renewal'.old = None /\ renewal'.new = None
    BY <1>0, <1>1 DEF Renewal
<1>3. /\ watches' \in [Channels -> Documents \cup {None}]
      /\ \A k \in Channels : watches'[k] = IF k = renewal.old THEN None ELSE watches[k]
    BY <1>0, <1>1
<1>4. \A d \in Documents : Recorded(d)' = Recorded(d) \ {renewal.old}
    BY <1>3, NoneAssumption DEF Recorded
<1>5. \A d \in Documents : d # renewal.doc => Recorded(d)' = Recorded(d)
    BY <1>1, <1>4 DEF Recorded
<1>6. WatchesAreOrderly'
  <2>1. channel' = channel /\ made' = made /\ process' = process
      BY <1>0 DEF cloudVars
  <2>2. \A k \in Channels : watches'[k] # None =>
            k <= made' /\ channel'[k] \in {None, watches'[k]}
      BY <1>1, <1>3, <2>1 DEF RenewalInv, WatchesAreOrderly
  <2>3. \A d \in Documents : \A k, m \in Recorded(d)' : k = m
      BY <1>1, <1>4 DEF RenewalInv, WatchesAreOrderly
  <2>4. \A d \in Documents \ (renewal'.todo \cup {renewal'.doc}) : Recorded(d)' # {}
      BY <1>0, <1>1, <1>2, <1>5 DEF RenewalInv, WatchesAreOrderly
  <2> QED BY <2>2, <2>3, <2>4 DEF WatchesAreOrderly
<1>7. RenewalInv'
    BY <1>0, <1>1, <1>2, <1>6 DEF RenewalInv
<1> QED BY <1>0, <1>2, <1>3, <1>7, RenewalFinds, RenewalKeeps
        DEF RenewalOnly, cloudVars, runVars

\* The new channel is one that nothing is recorded of yet.
LEMMA WatchFileKeeps ==
    ASSUME EventsInv, WatchFile PROVE EventsInv'
<1> DEFINE n == made + 1
<1>0. /\ process = "renew" /\ renewal.doc # None /\ renewal.old = None /\ renewal.new = None
      /\ Recorded(renewal.doc) = {} /\ made < MaxChannels /\ made' = n
      /\ channel' = [channel EXCEPT ![n] = renewal.doc]
      /\ sent' = sent \cup {[channel |-> n, number |-> 0]}
      /\ renewal' = [renewal EXCEPT !.new = n]
      /\ UNCHANGED <<edited, edits, tableVars, runVars, seen, process, faults>>
    BY DEF WatchFile
<1>1. /\ renewal \in Renewal /\ RenewalInv /\ channel \in [Channels -> Documents \cup {None}]
      /\ watches \in [Channels -> Documents \cup {None}] /\ made \in 0..MaxChannels
      /\ sent \subseteq Notification /\ renewal.doc \in Documents
    BY <1>0, RenewalFinds
<1>2. n \in Channels /\ n # None /\ n \in 0..MaxChannels /\ ~(n <= made)
    BY <1>0, <1>1, BoundsAssumption, NoneAssumption DEF Channels
<1>3. [channel |-> n, number |-> 0] \in Notification
    BY <1>2, BoundsAssumption DEF Notification
<1>4. watches[n] = None
    BY <1>1, <1>2 DEF RenewalInv, WatchesAreOrderly
<1>5. /\ renewal' \in Renewal /\ renewal'.todo = renewal.todo /\ renewal'.doc = renewal.doc
      /\ renewal'.old = None /\ renewal'.new = n
    BY <1>0, <1>1, <1>2 DEF Renewal
<1>6. /\ channel' \in [Channels -> Documents \cup {None}] /\ channel'[n] = renewal.doc
      /\ \A k \in Channels : k # n => channel'[k] = channel[k]
    BY <1>0, <1>1, <1>2
<1>7. \A k \in Channels : k <= made => k <= n
    BY <1>1 DEF Channels
<1> HIDE DEF n
<1>8. WatchesAreOrderly'
  <2>1. watches' = watches /\ process' = process /\ made' = n
      BY <1>0 DEF tableVars
  <2>2. \A k \in Channels : watches'[k] # None =>
            k <= made' /\ channel'[k] \in {None, watches'[k]}
      BY <1>1, <1>4, <1>6, <1>7, <2>1 DEF RenewalInv, WatchesAreOrderly
  <2> QED BY <1>1, <1>5, <2>1, <2>2 DEF RenewalInv, WatchesAreOrderly, Recorded
<1>9. RenewalInv'
  <2>1. n <= made' /\ Recorded(renewal.doc)' = {}
      BY <1>0, <1>2 DEF Recorded, tableVars, Channels
  <2> QED BY <1>0, <1>4, <1>5, <1>6, <1>8, <2>1 DEF RenewalInv, tableVars, Recorded
<1>10. sent' \subseteq Notification /\ made' \in 0..MaxChannels
    BY <1>0, <1>1, <1>2, <1>3
<1> QED BY <1>0, <1>5, <1>6, <1>9, <1>10, RenewalFinds, RenewalKeeps
        DEF RenewalOnly, tableVars, runVars

LEMMA SaveWatchKeeps ==
    ASSUME EventsInv, SaveWatch PROVE EventsInv'
<1>0. /\ process = "renew" /\ renewal.new # None
      /\ watches' = [watches EXCEPT ![renewal.new] = renewal.doc]
      /\ renewal' = [renewal EXCEPT !.doc = None, !.new = None]
      /\ UNCHANGED <<cloudVars, events, cursor, runVars, seen, process, faults>>
    BY DEF SaveWatch
<1>1. /\ renewal \in Renewal /\ RenewalInv /\ watches \in [Channels -> Documents \cup {None}]
      /\ renewal.new \in Channels /\ renewal.old = None /\ renewal.doc \in Documents
      /\ renewal.new <= made /\ channel[renewal.new] = renewal.doc
      /\ Recorded(renewal.doc) = {} /\ watches[renewal.new] = None
    BY <1>0, RenewalFinds DEF RenewalInv
<1>2. /\ renewal' \in Renewal /\ renewal'.todo = renewal.todo /\ renewal'.doc = None
      /\ renewal'.old = None /\ renewal'.new = None
    BY <1>0, <1>1 DEF Renewal
<1>3. /\ watches' \in [Channels -> Documents \cup {None}]
      /\ \A k \in Channels :
             watches'[k] = IF k = renewal.new THEN renewal.doc ELSE watches[k]
    BY <1>0, <1>1
<1>4. \A d \in Documents :
          Recorded(d)' = IF d = renewal.doc THEN {renewal.new} ELSE Recorded(d)
  <2> SUFFICES ASSUME NEW d \in Documents
               PROVE  Recorded(d)' = IF d = renewal.doc THEN {renewal.new} ELSE Recorded(d)
      OBVIOUS
  <2>1. CASE d = renewal.doc
      BY <1>1, <1>3, <2>1 DEF Recorded
  <2>2. CASE d # renewal.doc
      BY <1>1, <1>3, <2>2, NoneAssumption DEF Recorded
  <2> QED BY <2>1, <2>2
<1>5. WatchesAreOrderly'
  <2>1. channel' = channel /\ made' = made /\ process' = process
      BY <1>0 DEF cloudVars
  <2>2. \A k \in Channels : watches'[k] # None =>
            k <= made' /\ channel'[k] \in {None, watches'[k]}
      BY <1>1, <1>3, <2>1 DEF RenewalInv, WatchesAreOrderly
  <2>3. \A d \in Documents : \A k, m \in Recorded(d)' : k = m
      BY <1>1, <1>4 DEF RenewalInv, WatchesAreOrderly
  <2>4. \A d \in Documents \ (renewal'.todo \cup {renewal'.doc}) : Recorded(d)' # {}
      BY <1>0, <1>1, <1>2, <1>4 DEF RenewalInv, WatchesAreOrderly
  <2> QED BY <2>2, <2>3, <2>4 DEF WatchesAreOrderly
<1>6. RenewalInv'
    BY <1>0, <1>2, <1>5 DEF RenewalInv
<1> QED BY <1>0, <1>2, <1>3, <1>6, RenewalFinds, RenewalKeeps
        DEF RenewalOnly, cloudVars, runVars

LEMMA RenewalEndsKeeps ==
    ASSUME EventsInv, RenewalEnds PROVE EventsInv'
<1>0. /\ process = "renew" /\ process' = "none" /\ renewal' = NoRenewal
      /\ UNCHANGED <<cloudVars, tableVars, runVars, seen>> /\ (faults' = faults \/ Fault)
    BY DEF RenewalEnds
<1>1. RenewalInv /\ faults' \in 0..MaxFaults
    BY <1>0, RenewalFinds, BoundsAssumption DEF Fault
<1>2. RenewalInv'
    BY <1>0, <1>1, IdleFacts DEF RenewalInv, WatchesAreOrderly, Recorded, cloudVars, tableVars
<1> QED BY <1>0, <1>1, <1>2, IdleFacts, RenewalFinds, RenewalKeeps
        DEF RenewalOnly, cloudVars, tableVars, runVars

-----------------------------------------------------------------------------
(* The whole agent.                                                         *)

LEMMA InitKeeps == ASSUME Init PROVE EventsInv
<1>1. TypeOK
  <2>1. edited \in Counts /\ seen \in Counts
      BY BoundsAssumption DEF Init, Counts
  <2>2. /\ channel \in [Channels -> Documents \cup {None}]
        /\ watches \in [Channels -> Documents \cup {None}]
        /\ cursor \in [Documents -> 0..MaxEdits \cup {None}]
      BY DEF Init
  <2>3. made \in 0..MaxChannels /\ edits \in 0..MaxEdits /\ faults \in 0..MaxFaults
      BY BoundsAssumption DEF Init
  <2> QED BY <2>1, <2>2, <2>3, IdleFacts, EmptyIsBounded DEF Init, TypeOK
<1>2. CountsInv
  <2>1. /\ \A c \in Clouds : agent.read[c] = None
        /\ \A c \in Clouds, d \in Documents : edited[c][d] = 0 /\ seen[c][d] = 0
      BY IdleFacts DEF Init
  <2> QED BY <2>1 DEF Init, CountsInv
<1>3. LoopInv
    BY IdleFacts, FS_EmptySet DEF Init, LoopInv, OwedIsQueued, QueueIsBounded
<1>4. RenewalInv
    BY IdleFacts, NoneAssumption DEF Init, RenewalInv, WatchesAreOrderly, Recorded
<1> QED BY <1>1, <1>2, <1>3, <1>4 DEF EventsInv

LEMMA NextKeeps == ASSUME EventsInv, [Next]_vars PROVE EventsInv'
<1>1. CASE \E c \in Clouds, d \in Documents : Edit(c, d)
    BY <1>1, EditKeeps
<1>2. CASE \E m \in sent : Deliver(m)
    BY <1>2, DeliverKeeps
<1>3. CASE Start
    BY <1>3, StartKeeps
<1>4. CASE Stop
    BY <1>4, StopKeeps
<1>5. CASE Exit \/ Crash
    BY <1>5, ForgetKeeps
<1>6. CASE \E d \in Documents : FirstPass(d) \/ RoundPass(d)
    BY <1>6, FirstPassKeeps
<1>7. CASE QueuePass
    BY <1>7, QueuePassKeeps
<1>8. CASE ReadVersions \/ SaveVersions \/ PassEnds \/ PassFails
    BY <1>8, ReadVersionsKeeps, SaveVersionsKeeps, PassEndsKeeps
<1>9. CASE FirstEnds \/ DeltaReady \/ Timeout \/ PollEnds \/ RoundEnds
    BY <1>9, LoopStepKeeps
<1>10. CASE (\E g \in Groups : InitializeDelta(g) \/ Poll(g)) \/ DeltaFails
    BY <1>10, DeltaKeeps
<1>11. CASE Renew
    BY <1>11, RenewKeeps
<1>12. CASE RenewalStep
    BY <1>12, RenewDocumentKeeps, StopWatchKeeps, ForgetWatchKeeps, WatchFileKeeps,
       SaveWatchKeeps, RenewalEndsKeeps DEF RenewalStep
<1>13. CASE UNCHANGED vars
  <2>1. EventsInv' = EventsInv
      BY <1>13 DEF vars, cloudVars, tableVars, runVars, EventsInv, TypeOK, CountsInv, LoopInv,
         RenewalInv, OwedIsQueued, QueueIsBounded, WatchesAreOrderly, Recorded
  <2> QED BY <2>1
<1> QED BY <1>1, <1>2, <1>3, <1>4, <1>5, <1>6, <1>7, <1>8, <1>9, <1>10, <1>11, <1>12, <1>13
        DEF Next, AgentStep

\* What makes the invariants hold is inductive.
THEOREM EventsInvHolds == Spec => []EventsInv
<1>1. Init => EventsInv
    BY InitKeeps
<1>2. EventsInv /\ [Next]_vars => EventsInv'
    BY NextKeeps
<1> QED BY <1>1, <1>2, PTL DEF Spec

\* The agent's state is of the types its code gives it.
THEOREM EventTypesHold == Spec => []TypeOK
<1>1. EventsInv => TypeOK
    BY DEF EventsInv
<1> QED BY <1>1, EventsInvHolds, PTL

\* A document whose notification was taken is queued or in the round, as long as the
\* agent runs.
THEOREM OwedIsQueuedHolds == Spec => []OwedIsQueued
<1>1. EventsInv => OwedIsQueued
    BY DEF EventsInv, LoopInv
<1> QED BY <1>1, EventsInvHolds, PTL

\* Repeated notifications do not fill the queue.
THEOREM QueueIsBoundedHolds == Spec => []QueueIsBounded
<1>1. EventsInv => QueueIsBounded
    BY DEF EventsInv, LoopInv
<1> QED BY <1>1, EventsInvHolds, PTL

\* A document has at most one recorded channel, its own; after its renewal, one.
THEOREM WatchesAreOrderlyHolds == Spec => []WatchesAreOrderly
<1>1. EventsInv => WatchesAreOrderly
    BY DEF EventsInv, RenewalInv
<1> QED BY <1>1, EventsInvHolds, PTL

-----------------------------------------------------------------------------
(* The agent implements ChangeFeed's safety part.                           *)

LEMMA SaveIsSave ==
    ASSUME EventsInv, SaveVersions PROVE Feed!Save(agent.doc) /\ agent.doc \in Documents
<1> DEFINE d == agent.doc
<1>1. /\ process = "run" /\ d # None /\ edited' = edited
      /\ \A c \in Clouds : agent.read[c] # None
      /\ seen' = [c \in Clouds |-> [seen[c] EXCEPT ![d] = agent.read[c]]]
    BY DEF SaveVersions, HasRead, cloudVars
<1>2. /\ d \in Documents /\ agent.read \in [Clouds -> 0..MaxEdits \cup {None}]
      /\ \A c \in Clouds : /\ agent.read[c] \in 0..MaxEdits
                           /\ seen[c][d] <= agent.read[c] /\ agent.read[c] <= edited[c][d]
    BY <1>1, PassFinds
<1>3. \A c \in Clouds : seen[c][d] \in Nat /\ edited[c][d] \in 0..MaxEdits
    BY <1>1, <1>2, AgentFinds
<1>4. \A c \in Clouds : agent.read[c] \in seen[c][d]..edited[c][d]
    BY <1>2, <1>3, BoundsAssumption
<1>5. agent.read \in [Clouds -> UNION {seen[c][d]..edited[c][d] : c \in Clouds}]
    BY <1>2, <1>4
<1> HIDE DEF d
<1>6. Feed!Save(d)
    BY <1>1, <1>4, <1>5 DEF Feed!Save
<1> QED BY <1>2, <1>6 DEF d

\* Nothing but an edit and a saved row is seen from outside.
LEMMA RestIsStutter ==
    ASSUME [Next]_vars, ~SaveVersions, ~(\E c \in Clouds, d \in Documents : Edit(c, d))
    PROVE  UNCHANGED <<edited, seen>>
<1>1. CASE (\E m \in sent : Deliver(m)) \/ Start \/ Stop \/ Crash \/ Exit
    BY <1>1 DEF Deliver, Start, Stop, Crash, Exit, cloudVars
<1>2. CASE \E d \in Documents : FirstPass(d) \/ RoundPass(d)
    BY <1>2 DEF FirstPass, RoundPass, Begin, cloudVars
<1>3. CASE \E g \in Groups : InitializeDelta(g) \/ Poll(g)
    BY <1>3 DEF InitializeDelta, Poll, cloudVars
<1>4. CASE QueuePass \/ FirstEnds \/ DeltaReady \/ Timeout \/ PollEnds \/ RoundEnds
    BY <1>4 DEF QueuePass, FirstEnds, DeltaReady, Timeout, PollEnds, RoundEnds, Begin, cloudVars
<1>5. CASE ReadVersions \/ PassEnds \/ PassFails \/ DeltaFails
    BY <1>5 DEF ReadVersions, PassEnds, PassFails, DeltaFails, cloudVars
<1>6. CASE Renew \/ ForgetWatch \/ WatchFile \/ SaveWatch \/ RenewalEnds
    BY <1>6 DEF Renew, ForgetWatch, WatchFile, SaveWatch, RenewalEnds, cloudVars, runVars
<1>7. CASE (\E d \in Documents : RenewDocument(d)) \/ (\E n \in Channels : StopWatch(n))
    BY <1>7 DEF RenewDocument, StopWatch, cloudVars
<1>8. CASE UNCHANGED vars
    BY <1>8 DEF vars, cloudVars
<1> QED BY <1>1, <1>2, <1>3, <1>4, <1>5, <1>6, <1>7, <1>8 DEF Next, AgentStep, RenewalStep

\* The version in a row is one its document had, and never gives way to an older one:
\* each step is an edit, the saving of a version that was read in the same pass and so is
\* no older than the row's, or nothing at all to those who see edits and rows.
THEOREM FeedIsKept == Spec => KeepsFeed
<1>1. Init => Feed!Init
    BY DEF Init, Feed!Init
<1>2. EventsInv /\ [Next]_vars => [Feed!Next]_(Feed!vars)
  <2> SUFFICES ASSUME EventsInv, [Next]_vars PROVE [Feed!Next]_(Feed!vars)
      OBVIOUS
  <2>1. CASE SaveVersions
      BY <2>1, SaveIsSave DEF Feed!Next
  <2>2. CASE \E c \in Clouds, d \in Documents : Edit(c, d)
      BY <2>2 DEF Edit, Feed!Next, Feed!Change
  <2>3. CASE ~SaveVersions /\ ~(\E c \in Clouds, d \in Documents : Edit(c, d))
      BY <2>3, RestIsStutter DEF Feed!vars
  <2> QED BY <2>1, <2>2, <2>3
<1> QED BY <1>1, <1>2, EventsInvHolds, PTL DEF Spec, KeepsFeed, Feed!Safety

=============================================================================
