----------------------------- MODULE Supervisor -----------------------------
(***************************************************************************)
(* One doccolab-mcp server: the supervisor that keeps a sync agent running  *)
(* for every enabled project, the runtimes the agents and the MCP tools     *)
(* share, the lock file that keeps other publishers off a state database,   *)
(* hot reload and shutdown.                                                *)
(*                                                                         *)
(* The event loop runs one coroutine at a time, so an action is what a      *)
(* coroutine does between two awaits; passes, and the supervisor's get and  *)
(* invalidate, run in threads.  What a pass does is SyncDocument's matter:  *)
(* here it begins, ends, or raises because its runtime was closed under it. *)
(* Every project has a state database of its own.                          *)
(***************************************************************************)
EXTENDS Naturals, FiniteSets

CONSTANTS
    None,       \* Python's None
    Missing,    \* the configuration file is not there
    Agent,      \* run_forever, as the worker of a pass
    Other,      \* another process, as the holder of a lock file
    Projects,
    Documents,  \* of every project
    Tools,      \* MCP calls that can be under way at once
    Slots,      \* where runtimes live: numbers, so that one can be the first free
    MaxEdits,   \* bound: changes to the registry and to configuration files
    MaxFaults   \* bound: failed calls, and locks another process takes

ASSUME SlotsAssumption == Slots \subseteq Nat
ASSUME NamesAssumption ==
    /\ None \notin Nat /\ None \notin Projects \cup Tools \cup {Agent, Other}
    /\ Missing \notin Nat /\ Other \notin Nat /\ Agent \notin Tools
ASSUME LimitsAssumption == MaxEdits \in Nat /\ MaxFaults \in Nat

VARIABLES
    enabled,    \* the projects the registry enables
    config,     \* of each project, the version of its configuration, or Missing
    lock,       \* of each project's database, who holds the lock file
    rt,         \* the runtimes
    pass,       \* who is in a pass over a document: holds its asyncio lock
    entries,    \* ProjectRuntimeCache._entries
    closing,    \* the runtime invalidate is closing
    tasks,      \* SyncSupervisor.tasks: the runtime each task runs
    fingerprints,
    stop_event, \* the supervisor's
    sup,        \* where SyncSupervisor.run is
    server,     \* uvicorn
    main,       \* where _serve is
    tool,       \* the MCP calls
    edits, faults

registryVars == <<enabled, config, edits>>
cacheVars == <<lock, entries, closing>>
supVars == <<tasks, fingerprints, sup>>
serveVars == <<stop_event, server, main>>
vars == <<registryVars, cacheVars, rt, pass, supVars, serveVars, tool, faults>>

Versions == 0..MaxEdits
Workers == Tools \cup {Agent}

\* open: its clients and its state store are; stopped: the manager's stop_event;
\* agent and todo: where run_forever is and the documents left in its round.
Runtime == [project : Projects \cup {None}, config : Versions, open : BOOLEAN, stopped : BOOLEAN,
            agent : {"none", "first", "round", "waiting", "ended", "failed"},
            todo : SUBSET Documents]

Init ==
    /\ enabled \in SUBSET Projects
    /\ config = [p \in Projects |-> 0]
    /\ lock = [p \in Projects |-> None]
    /\ rt = [r \in Slots |-> [project |-> None, config |-> 0, open |-> FALSE,
                              stopped |-> FALSE, agent |-> "none", todo |-> {}]]
    /\ pass = [r \in Slots |-> [d \in Documents |-> None]]
    /\ entries = [p \in Projects |-> None]
    /\ closing = None
    /\ tasks = [p \in Projects |-> None]
    /\ fingerprints = [p \in Projects |-> None]
    /\ stop_event = FALSE
    /\ sup = [at |-> "top", stops |-> {}, starts |-> {}, project |-> None,
              print |-> None, final |-> FALSE]
    /\ server = "serving"
    /\ main = "waiting"
    /\ tool = [t \in Tools |-> [rt |-> None, todo |-> {}]]
    /\ edits = 0 /\ faults = 0

InPass(r, w) == \E d \in Documents : pass[r][d] = w
Done(r) == rt[r].agent \in {"ended", "failed"}
Tasked == {p \in Projects : tasks[p] # None}

Fault == faults < MaxFaults /\ faults' = faults + 1

-----------------------------------------------------------------------------
(* The cache.                                                               *)

\* A slot nothing refers to any more.
Free(r) ==
    /\ ~rt[r].open /\ closing # r
    /\ \A p \in Projects : r \notin {entries[p], tasks[p], lock[p]}
    /\ \A t \in Tools : tool[t].rt # r
    /\ \A d \in Documents : pass[r][d] = None

\* build_runtime: the configuration is read and the lock file taken before
\* anything is opened.  The cache's lock is held: no other get comes between.
BuildSlip(p) ==
    \E r \in Slots :
        /\ Free(r) /\ \A s \in Slots : Free(s) => r <= s
        /\ config[p] # Missing
        /\ lock' = [lock EXCEPT ![p] = r]
        /\ rt' = [rt EXCEPT ![r] = [project |-> p, config |-> config[p], open |-> TRUE,
                                    stopped |-> FALSE, agent |-> "none", todo |-> {}]]
        /\ entries' = [entries EXCEPT ![p] = r]

BuildUnreadSlip(p) ==
    \E r \in Slots :
        /\ Free(r) /\ \A s \in Slots : Free(s) => r <= s
        /\ lock[p] = None
        /\ lock' = [lock EXCEPT ![p] = r]
        /\ rt' = [rt EXCEPT ![r] = [project |-> p, config |-> config[p], open |-> TRUE,
                                    stopped |-> FALSE, agent |-> "none", todo |-> {}]]
        /\ entries' = [entries EXCEPT ![p] = r]

Build(p) ==
    \E r \in Slots :
        /\ Free(r) /\ \A s \in Slots : Free(s) => r <= s
        /\ config[p] # Missing
        /\ lock[p] = None
        /\ lock' = [lock EXCEPT ![p] = r]
        /\ rt' = [rt EXCEPT ![r] = [project |-> p, config |-> config[p], open |-> TRUE,
                                    stopped |-> FALSE, agent |-> "none", todo |-> {}]]
        /\ entries' = [entries EXCEPT ![p] = r]

\* The part of invalidate under the cache's lock, and the manager's stop.
ForgetSlip(p) ==
    /\ closing' = entries[p]
    /\ rt' = [rt EXCEPT ![entries[p]].stopped = TRUE]
    /\ UNCHANGED <<lock, entries>>

Forget(p) ==
    /\ closing' = entries[p]
    /\ entries' = [entries EXCEPT ![p] = None]
    /\ rt' = [rt EXCEPT ![entries[p]].stopped = TRUE]
    /\ UNCHANGED lock

\* Runtime.close: the clients and the state store, then the lock file.
CloseClients ==
    /\ closing # None /\ rt[closing].open
    /\ rt' = [rt EXCEPT ![closing].open = FALSE]
    /\ UNCHANGED <<registryVars, cacheVars, pass, supVars, serveVars, tool, faults>>

ReleaseLock ==
    /\ closing # None /\ ~rt[closing].open
    /\ lock' = [p \in Projects |-> IF lock[p] = closing THEN None ELSE lock[p]]
    /\ closing' = None
    /\ UNCHANGED <<registryVars, entries, rt, pass, supVars, serveVars, tool, faults>>

Closing == CloseClients \/ ReleaseLock

-----------------------------------------------------------------------------
(* SyncSupervisor.run.                                                      *)

\* The top of the loop, and the stop of every task after it.
Top ==
    /\ sup.at = "top"
    /\ sup' = IF stop_event
              THEN [sup EXCEPT !.at = "next", !.stops = Tasked, !.final = TRUE]
              ELSE [sup EXCEPT !.at = "next", !.stops = Tasked \ enabled,
                               !.starts = enabled]
    /\ UNCHANGED <<rt, cacheVars, tasks, fingerprints, faults>>

\* The registry does not parse: the exception ends run.
ListFails ==
    /\ sup.at = "top" /\ ~stop_event /\ Fault
    /\ sup' = [sup EXCEPT !.at = "failed"]
    /\ UNCHANGED <<rt, cacheVars, tasks, fingerprints>>

\* _stop_project up to its first await.  print is what to start p with
\* afterwards, or None.
Stopping(p, print) ==
    /\ rt' = [rt EXCEPT ![entries[p]].stopped = TRUE]
    /\ sup' = [sup EXCEPT !.at = "drain", !.project = p, !.print = print,
                          !.stops = @ \ {p},
                          !.starts = IF print = None THEN @ ELSE @ \ {p}]
    /\ UNCHANGED <<cacheVars, tasks, fingerprints, faults>>

StopDisabled ==
    /\ sup.at = "next"
    /\ \E p \in sup.stops : Stopping(p, None)

\* One project of the round: its fingerprint, which needs the file, and
\* whether its task has to be replaced or started.
CheckSlip ==
    /\ sup.at = "next" /\ sup.stops = {}
    /\ \E p \in sup.starts :
          \/ /\ config[p] = Missing
             /\ sup' = [sup EXCEPT !.at = "failed"]
             /\ UNCHANGED <<rt, cacheVars, tasks, fingerprints, faults>>
          \/ /\ config[p] # Missing
             /\ tasks[p] # None
             /\ fingerprints[p] # config[p]
             /\ Stopping(p, config[p])
          \/ /\ config[p] # Missing
             /\ tasks[p] # None => fingerprints[p] = config[p]
             /\ sup' = [sup EXCEPT !.at = IF tasks[p] = None THEN "get" ELSE "next",
                                   !.starts = @ \ {p}, !.project = p,
                                   !.print = config[p]]
             /\ UNCHANGED <<rt, cacheVars, tasks, fingerprints, faults>>

Check ==
    /\ sup.at = "next" /\ sup.stops = {}
    /\ \E p \in sup.starts :
          \/ /\ config[p] = Missing
             /\ sup' = [sup EXCEPT !.at = "failed"]
             /\ UNCHANGED <<rt, cacheVars, tasks, fingerprints, faults>>
          \/ /\ config[p] # Missing
             /\ tasks[p] # None
             /\ Done(tasks[p]) \/ fingerprints[p] # config[p]
             /\ Stopping(p, config[p])
          \/ /\ config[p] # Missing
             /\ tasks[p] # None => ~Done(tasks[p]) /\ fingerprints[p] = config[p]
             /\ sup' = [sup EXCEPT !.at = IF tasks[p] = None THEN "get" ELSE "next",
                                   !.starts = @ \ {p}, !.project = p,
                                   !.print = config[p]]
             /\ UNCHANGED <<rt, cacheVars, tasks, fingerprints, faults>>

\* The rest of _stop_project: the task has ended, and then invalidate.
DrainSlip ==
    /\ sup.at = "drain"
    /\ tasks' = [tasks EXCEPT ![sup.project] = None]
    /\ fingerprints' = [fingerprints EXCEPT ![sup.project] = None]
    /\ sup' = [sup EXCEPT !.at = "invalidate"]
    /\ UNCHANGED <<rt, cacheVars, faults>>

DrainLateSlip ==
    /\ sup.at = "drain" /\ Done(tasks[sup.project])
    /\ sup' = [sup EXCEPT !.at = "invalidate"]
    /\ UNCHANGED <<tasks, fingerprints, rt, cacheVars, faults>>

Drain ==
    /\ sup.at = "drain" /\ Done(tasks[sup.project])
    /\ tasks' = [tasks EXCEPT ![sup.project] = None]
    /\ fingerprints' = [fingerprints EXCEPT ![sup.project] = None]
    /\ sup' = [sup EXCEPT !.at = "invalidate"]
    /\ UNCHANGED <<rt, cacheVars, faults>>

Invalidate ==
    /\ sup.at = "invalidate"
    /\ Forget(sup.project)
    /\ sup' = [sup EXCEPT !.at = IF sup.print = None THEN "next" ELSE "get"]
    /\ UNCHANGED <<tasks, fingerprints, faults>>

\* runtimes.get finds a runtime, which a tool may have made, or builds one.
Get ==
    /\ sup.at = "get"
    /\ \/ entries[sup.project] # None /\ UNCHANGED <<lock, rt, entries>>
       \/ entries[sup.project] = None /\ Build(sup.project)
    /\ sup' = [sup EXCEPT !.at = "start"]
    /\ UNCHANGED <<closing, tasks, fingerprints, faults>>

\* No configuration, a lock somebody holds, or a credential that is not there:
\* the project waits for the next round.
GetFails ==
    /\ sup.at = "get" /\ entries[sup.project] = None
    /\ \/ Fault
       \/ (config[sup.project] = Missing \/ lock[sup.project] # None) /\ UNCHANGED faults
    /\ sup' = [sup EXCEPT !.at = "next", !.print = None]
    /\ UNCHANGED <<rt, cacheVars, tasks, fingerprints>>

Start ==
    /\ sup.at = "start"
    /\ LET p == sup.project
       IN  /\ tasks' = [tasks EXCEPT ![p] = entries[p]]
           /\ fingerprints' = [fingerprints EXCEPT ![p] = sup.print]
           /\ rt' = [rt EXCEPT ![entries[p]].agent = "first",
                               ![entries[p]].todo = Documents]
    /\ sup' = [sup EXCEPT !.at = "next", !.print = None]
    /\ UNCHANGED <<cacheVars, faults>>

\* The round is over; the next begins after hot_reload_seconds or at the stop.
Rest ==
    /\ sup.at = "next" /\ sup.stops = {} /\ sup.starts = {}
    /\ sup' = [sup EXCEPT !.at = IF sup.final THEN "done" ELSE "top", !.project = None,
                          !.print = None]
    /\ UNCHANGED <<rt, cacheVars, tasks, fingerprints, faults>>

\* The supervisor goes on when the invalidate it awaits has closed the runtime.
Supervise ==
    /\ closing = None
    /\ \/ Top \/ ListFails \/ StopDisabled \/ Check \/ Drain \/ Invalidate
       \/ Get \/ GetFails \/ Start \/ Rest
    /\ UNCHANGED <<registryVars, pass, serveVars, tool>>

SupervisorEnded == sup.at \in {"done", "failed"}

-----------------------------------------------------------------------------
(* SyncManager.run_forever, as the task of a runtime.                       *)

\* The lock of the document is taken and the pass begins in its thread, where
\* reading the row of a closed store raises, and so does mark_error after it.
AgentBegins(r, d) ==
    /\ rt[r].agent \in {"first", "round"} /\ ~InPass(r, Agent)
    /\ d \in rt[r].todo /\ pass[r][d] = None
    /\ IF rt[r].open
       THEN pass' = [pass EXCEPT ![r][d] = Agent] /\ UNCHANGED rt
       ELSE rt' = [rt EXCEPT ![r].agent = "failed"] /\ UNCHANGED pass
    /\ UNCHANGED faults

AgentEnds(r, d) ==
    /\ pass[r][d] = Agent
    /\ pass' = [pass EXCEPT ![r][d] = None]
    /\ \/ rt' = [rt EXCEPT ![r].todo = @ \ {d}]
       \/ ~rt[r].open /\ rt' = [rt EXCEPT ![r].agent = "failed"]
    /\ UNCHANGED faults

\* Outside sync_document nothing catches an exception.
CallFails(r) == Fault \/ (~rt[r].open /\ UNCHANGED faults)

\* The end of sync_all, of initialize_microsoft_delta or of a poll's passes.
AgentRestsSlip(r) ==
    /\ rt[r].agent \in {"first", "round"} /\ rt[r].todo = {}
    /\ \/ /\ rt' = [rt EXCEPT ![r].agent = "waiting"]
          /\ UNCHANGED faults
       \/ /\ rt[r].agent = "first" /\ CallFails(r)
          /\ rt' = [rt EXCEPT ![r].agent = "failed"]
    /\ UNCHANGED pass

AgentRests(r) ==
    /\ rt[r].agent \in {"first", "round"} /\ rt[r].todo = {}
    /\ \/ /\ rt' = [rt EXCEPT ![r].agent = IF rt[r].stopped THEN "ended" ELSE "waiting"]
          /\ UNCHANGED faults
       \/ /\ rt[r].agent = "first" /\ CallFails(r)
          /\ rt' = [rt EXCEPT ![r].agent = "failed"]
    /\ UNCHANGED pass

\* poll_interval_seconds are over: Microsoft is polled and every document gets
\* a pass.  The stop_event is looked at only after that.
AgentPolls(r) ==
    /\ rt[r].agent = "waiting"
    /\ \/ rt' = [rt EXCEPT ![r].agent = "round", ![r].todo = Documents] /\ UNCHANGED faults
       \/ CallFails(r) /\ rt' = [rt EXCEPT ![r].agent = "failed"]
    /\ UNCHANGED pass

AgentGoesOn(r) == AgentRests(r) \/ AgentPolls(r) \/ \E d \in Documents : AgentEnds(r, d)

AgentStep(r) ==
    /\ main # "exited"
    /\ AgentGoesOn(r) \/ \E d \in Documents : AgentBegins(r, d)
    /\ UNCHANGED <<registryVars, cacheVars, supVars, serveVars, tool>>

-----------------------------------------------------------------------------
(* The MCP tools that run passes: update_document and the round trips for   *)
(* one document, sync_github for all.                                       *)

\* authorize refuses a disabled project.  A get that fails is an error answer.
ToolCalls(t, p) ==
    /\ server = "serving" /\ p \in enabled /\ tool[t].rt = None
    /\ \/ entries[p] # None /\ UNCHANGED <<lock, rt, entries>>
       \/ entries[p] = None /\ Build(p)
    /\ \E D \in {Documents} \cup {{d} : d \in Documents} :
          tool' = [tool EXCEPT ![t] = [rt |-> entries'[p], todo |-> D]]
    /\ UNCHANGED <<closing, pass>>

ToolBegins(t, d) ==
    LET r == tool[t].rt
    IN  /\ r # None /\ ~InPass(r, t)
        /\ d \in tool[t].todo /\ pass[r][d] = None
        /\ IF rt[r].open
           THEN pass' = [pass EXCEPT ![r][d] = t] /\ UNCHANGED tool
           ELSE tool' = [tool EXCEPT ![t] = [rt |-> None, todo |-> {}]] /\ UNCHANGED pass
        /\ UNCHANGED <<cacheVars, rt>>

ToolEnds(t, d) ==
    LET r == tool[t].rt
        left == tool[t].todo \ {d}
    IN  /\ r # None /\ pass[r][d] = t
        /\ pass' = [pass EXCEPT ![r][d] = None]
        /\ \/ left # {} /\ tool' = [tool EXCEPT ![t].todo = left]
           \/ (left = {} \/ ~rt[r].open)
                /\ tool' = [tool EXCEPT ![t] = [rt |-> None, todo |-> {}]]
        /\ UNCHANGED <<cacheVars, rt>>

ToolStep(t) ==
    /\ \/ \E p \in Projects : ToolCalls(t, p)
       \/ \E d \in Documents : ToolBegins(t, d) \/ ToolEnds(t, d)
    /\ UNCHANGED <<registryVars, supVars, serveVars, faults>>

-----------------------------------------------------------------------------
(* _serve and the HTTP server.                                              *)

\* A signal stops uvicorn, which answers the calls under way and then returns.
Signal ==
    /\ server = "serving"
    /\ server' = "exiting"
    /\ UNCHANGED <<registryVars, cacheVars, rt, pass, supVars, stop_event, main, tool,
                   faults>>

ServerReturns ==
    /\ server = "exiting" /\ \A t \in Tools : tool[t].rt = None
    /\ server' = "exited"
    /\ UNCHANGED <<stop_event, main, cacheVars, rt>>

\* FIRST_COMPLETED, and the finally clause.
MainStopsSlip ==
    /\ main = "waiting" /\ (server # "serving" \/ SupervisorEnded)
    /\ stop_event' = TRUE
    /\ server' = IF server = "serving" THEN "exiting" ELSE server
    /\ main' = "gathering"
    /\ UNCHANGED <<cacheVars, rt>>

MainStops ==
    /\ main = "waiting" /\ (server = "exited" \/ SupervisorEnded)
    /\ stop_event' = TRUE
    /\ server' = IF server = "serving" THEN "exiting" ELSE server
    /\ main' = "gathering"
    /\ UNCHANGED <<cacheVars, rt>>

MainGathers ==
    /\ main = "gathering" /\ server = "exited" /\ SupervisorEnded
    /\ main' = "closing"
    /\ UNCHANGED <<stop_event, server, cacheVars, rt>>

\* runtimes.close.
MainCloses ==
    /\ main = "closing" /\ closing = None
    /\ \E p \in Projects : entries[p] # None /\ Forget(p)
    /\ UNCHANGED <<stop_event, server, main>>

MainReturns ==
    /\ main = "closing" /\ closing = None
    /\ \A p \in Projects : entries[p] = None
    /\ main' = "exited"
    /\ UNCHANGED <<stop_event, server, cacheVars, rt>>

Serve ==
    /\ MainStops \/ MainGathers \/ MainCloses \/ MainReturns \/ ServerReturns
    /\ UNCHANGED <<registryVars, pass, supVars, tool, faults>>

-----------------------------------------------------------------------------
(* The people who configure it, and other publishers.                       *)

Configure ==
    /\ edits < MaxEdits /\ edits' = edits + 1
    /\ \E p \in Projects :
          \/ /\ \E v \in {edits', Missing} : config' = [config EXCEPT ![p] = v]
             /\ UNCHANGED enabled
          \/ /\ enabled' = IF p \in enabled THEN enabled \ {p} ELSE enabled \cup {p}
             /\ UNCHANGED config
    /\ UNCHANGED <<cacheVars, rt, pass, supVars, serveVars, tool, faults>>

OtherLocks ==
    /\ Fault
    /\ \E p \in Projects : lock[p] = None /\ lock' = [lock EXCEPT ![p] = Other]
    /\ UNCHANGED <<registryVars, entries, closing, rt, pass, supVars, serveVars, tool>>

OtherUnlocks ==
    /\ \E p \in Projects : lock[p] = Other /\ lock' = [lock EXCEPT ![p] = None]
    /\ UNCHANGED <<registryVars, entries, closing, rt, pass, supVars, serveVars, tool,
                   faults>>

Exited == main = "exited" /\ UNCHANGED vars

Next ==
    \/ Closing \/ Supervise \/ Serve \/ Signal
    \/ Configure \/ OtherLocks \/ OtherUnlocks
    \/ \E r \in Slots : AgentStep(r)
    \/ \E t \in Tools : ToolStep(t)
    \/ Exited

\* Threads and coroutines go on, and another publisher ends; nobody has to call,
\* configure or stop.  An asyncio lock is granted in the order it was asked for:
\* a worker that keeps finding a document's lock free gets it.
Fairness ==
    /\ WF_vars(Closing) /\ WF_vars(Supervise) /\ WF_vars(Serve) /\ WF_vars(OtherUnlocks)
    /\ \A r \in Slots : SF_vars(AgentStep(r))
    /\ \A t \in Tools : SF_vars(tool[t].rt # None /\ ToolStep(t))

Spec == Init /\ [][Next]_vars

FairSpec == Spec /\ Fairness
=============================================================================
