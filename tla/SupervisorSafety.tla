-------------------------- MODULE SupervisorSafety --------------------------
(***************************************************************************)
(* What the supervisor, the runtime cache and the lock file are for, stated *)
(* of Supervisor.                                                          *)
(***************************************************************************)
EXTENDS Supervisor

Position ==
    [at : {"top", "next", "drain", "invalidate", "get", "start", "done", "failed"},
     stops : SUBSET Projects, starts : SUBSET Projects,
     project : Projects \cup {None}, print : Versions \cup {None}, final : BOOLEAN]

TypeOK ==
    /\ enabled \subseteq Projects
    /\ config \in [Projects -> Versions \cup {Missing}]
    /\ lock \in [Projects -> Slots \cup {None, Other}]
    /\ rt \in [Slots -> Runtime]
    /\ pass \in [Slots -> [Documents -> Workers \cup {None}]]
    /\ entries \in [Projects -> Slots \cup {None}]
    /\ closing \in Slots \cup {None}
    /\ tasks \in [Projects -> Slots \cup {None}]
    /\ fingerprints \in [Projects -> Versions \cup {None}]
    /\ stop_event \in BOOLEAN
    /\ sup \in Position
    /\ server \in {"serving", "exiting", "exited"}
    /\ main \in {"waiting", "gathering", "closing", "exited"}
    /\ tool \in [Tools -> [rt : Slots \cup {None}, todo : SUBSET Documents]]
    /\ edits \in 0..MaxEdits /\ faults \in 0..MaxFaults

-----------------------------------------------------------------------------
(* The inductive invariant.                                                 *)

\* An open runtime holds its project's lock file; only a runtime the cache has,
\* or one being closed, does.
LocksAreOwned ==
    /\ \A r \in Slots : rt[r].open =>
          rt[r].project \in Projects /\ lock[rt[r].project] = r
    /\ \A p \in Projects, r \in Slots : lock[p] = r =>
          rt[r].project = p /\ r \in {entries[p], closing}

\* What the cache has is open and of its project.
CacheIsOwned ==
    \A p \in Projects : entries[p] # None =>
        /\ rt[entries[p]].open /\ rt[entries[p]].project = p
        /\ closing # entries[p]

\* A task runs on the runtime the cache has; only when the supervisor failed
\* does _serve close it first.
TasksAreCached ==
    /\ main \notin {"closing", "exited"} =>
          \A p \in Projects : tasks[p] \in {None, entries[p]}
    /\ sup.stops \subseteq Tasked
    /\ sup.at = "drain" => sup.project \in Tasked /\ sup.project \notin sup.stops
    /\ sup.at \in {"get", "start", "invalidate"} => sup.project \in Projects \ Tasked
    /\ sup.at \in {"start", "invalidate"} => entries[sup.project] # None

\* A runtime without a task has no agent, but for the one about to be closed.
AgentsAreTasks ==
    \A p \in Projects : entries[p] # None =>
        \/ tasks[p] = entries[p]
        \/ sup.at = "invalidate" /\ p = sup.project /\ Done(entries[p])
        \/ rt[entries[p]].agent = "none"

\* The last round stops every task.
LastRound ==
    /\ sup.at = "top" => sup.starts = {} /\ sup.print = None
    /\ sup.final =>
          /\ sup.at \in {"next", "drain", "invalidate", "done"}
          /\ sup.starts = {} /\ (sup.at # "next" => sup.print = None)
          /\ Tasked = sup.stops \cup (IF sup.at = "drain" THEN {sup.project} ELSE {})
    /\ sup.at = "done" => sup.final /\ sup.stops = {}

\* _serve closes the runtimes when the server and the supervisor have ended, and
\* a supervisor that did not fail ends because the server did.
ServeWaits ==
    /\ stop_event <=> main # "waiting"
    /\ main \in {"closing", "exited"} => server = "exited" /\ SupervisorEnded
    /\ (main # "waiting" /\ sup.at # "failed") => server = "exited"
    /\ sup.final => stop_event
    /\ server = "exited" => \A t \in Tools : tool[t].rt = None

\* Who is in a pass, and that the agent of a runtime being closed has ended.
PassesAreOwned ==
    /\ \A r \in Slots, d \in Documents :
          /\ \A t \in Tools : pass[r][d] = t =>
                /\ tool[t].rt = r
                /\ \A e \in Documents : pass[r][e] = t => e = d
          /\ (pass[r][d] = Agent /\ rt[r].open) =>
                rt[r].agent \in {"first", "round"} /\ d \in rt[r].todo
    /\ (closing # None /\ sup.at # "failed") =>
          rt[closing].agent \in {"none", "ended", "failed"}

SupervisorInv ==
    /\ TypeOK
    /\ LocksAreOwned /\ CacheIsOwned /\ TasksAreCached /\ AgentsAreTasks
    /\ LastRound /\ ServeWaits /\ PassesAreOwned

-----------------------------------------------------------------------------
(* What it is for.                                                          *)

\* Whatever the cache hands out is open and holds its project's lock file:
\* invalidate forgets a runtime before it closes it.
CachedIsOpen ==
    \A p \in Projects : entries[p] # None => rt[entries[p]].open /\ lock[p] = entries[p]

\* A database has one publisher: no two runtimes of a project have their state
\* stores open, reloads, tools that keep an old runtime and runtimes half closed
\* included, and none has while another process holds the lock file.
OnePublisher ==
    \A r \in Slots : rt[r].open =>
        /\ lock[rt[r].project] # Other
        /\ \A s \in Slots \ {r} : rt[s].open => rt[s].project # rt[r].project

\* SyncSupervisor.status, as /readyz answers while the server does.
Ready ==
    /\ server # "exited"
    /\ \A p \in enabled : tasks[p] # None
    /\ \A p \in Tasked : rt[tasks[p]].agent # "failed"

\* /readyz says ready only when every enabled project has an open runtime, the
\* one the cache hands out, and its agent's task on it.
ReadyMeansServed ==
    Ready => \A p \in enabled : entries[p] = tasks[p] /\ rt[entries[p]].open

Closes(r) == rt[r].open /\ ~rt'[r].open
Idle(r) == \A d \in Documents : pass[r][d] = None

\* The supervisor closes a runtime only after its agent has ended: a reload
\* never takes the state store from a poll.
AgentIsDrained ==
    [][\A r \in Slots : (Closes(r) /\ sup.at # "failed") =>
           rt[r].agent \notin {"first", "round", "waiting"}]_vars

\* In an orderly shutdown every pass, the agents' and the tools', is over before
\* its runtime is closed.
ShutdownDrains ==
    [][\A r \in Slots : (Closes(r) /\ stop_event /\ sup.at # "failed") => Idle(r)]_vars

-----------------------------------------------------------------------------
(* Progress.                                                                *)

\* A server that was told to stop, or whose supervisor failed, does stop.
StopEnds == (server = "exiting" \/ SupervisorEnded) ~> main = "exited"

\* A project that stays enabled gets an agent that has the latest configuration's
\* fingerprint, whatever failed, unless the server stops.
EnabledIsServed ==
    \A p \in Projects :
        <>[](p \in enabled /\ server = "serving") =>
            <>[](tasks[p] # None /\ ~Done(tasks[p]) /\ fingerprints[p] = config[p])

-----------------------------------------------------------------------------
(* What the documentation says and the code does not do.                    *)

\* OPERATIONS.md, the supervisor "hot-reloads": an agent runs the configuration
\* whose fingerprint is recorded for it, or a later one.
AgentRunsItsFingerprint ==
    \A p \in Projects : tasks[p] # None => fingerprints[p] <= rt[tasks[p]].config
=============================================================================
