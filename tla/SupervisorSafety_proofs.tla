---------------------- MODULE SupervisorSafety_proofs ----------------------
(***************************************************************************)
(* SupervisorInv is inductive, so it holds of every server: any projects,   *)
(* documents and tools, any number of changes, failures and rival           *)
(* publishers, as many runtimes as there is room for.                      *)
(***************************************************************************)
EXTENDS SupervisorSafety, TLAPS

\* None, Missing and the names of workers and of other processes are no slots,
\* and a slot is a number.
LEMMA Names ==
  /\ Slots \subseteq Nat /\ None \notin Slots /\ Other \notin Slots
  /\ None # Other /\ None # Agent /\ None \notin Projects /\ None \notin Tools
  /\ Agent \notin Tools /\ None \notin Nat /\ Missing \notin Nat
  /\ MaxEdits \in Nat /\ MaxFaults \in Nat
  BY SlotsAssumption, NamesAssumption, LimitsAssumption

\* A runtime stays one when it is told to stop or closed.
LEMMA RuntimeFlags ==
  ASSUME NEW f \in [Slots -> Runtime], NEW r \in Slots
  PROVE  /\ [f EXCEPT ![r].stopped = TRUE] \in [Slots -> Runtime]
         /\ [f EXCEPT ![r].open = FALSE] \in [Slots -> Runtime]
<1>1. {[f[r] EXCEPT !.stopped = TRUE], [f[r] EXCEPT !.open = FALSE]} \subseteq Runtime
  BY DEF Runtime
<1> QED BY <1>1

\* So it does when its agent goes on.
LEMMA RuntimeAgent ==
  ASSUME NEW f \in [Slots -> Runtime], NEW r \in Slots,
         NEW a \in {"none", "first", "round", "waiting", "ended", "failed"}
  PROVE  [f EXCEPT ![r].agent = a] \in [Slots -> Runtime]
<1>1. [f[r] EXCEPT !.agent = a] \in Runtime
  BY DEF Runtime
<1> QED BY <1>1

\* So it does when its agent has less or all of a round to do.
LEMMA RuntimeTodo ==
  ASSUME NEW f \in [Slots -> Runtime], NEW r \in Slots,
         NEW a \in {"none", "first", "round", "waiting", "ended", "failed"},
         NEW T \in SUBSET Documents
  PROVE  /\ [f EXCEPT ![r].todo = T] \in [Slots -> Runtime]
         /\ [f EXCEPT ![r].agent = a, ![r].todo = T] \in [Slots -> Runtime]
<1>1. /\ [f[r] EXCEPT !.todo = T] \in Runtime
      /\ [f[r] EXCEPT !.agent = a, !.todo = T] \in Runtime
  BY DEF Runtime
<1> QED BY <1>1

\* A server that has just started satisfies the invariant.
LEMMA InitSupervisorInv == Init => SupervisorInv
<1> SUFFICES ASSUME Init PROVE SupervisorInv
  OBVIOUS
<1> USE Names DEF Init
<1>1. TypeOK
  <2>1. rt \in [Slots -> Runtime]
    BY DEF Runtime, Versions
  <2>2. sup \in Position
    BY DEF Position
  <2>3. config \in [Projects -> Versions \cup {Missing}]
    BY DEF Versions
  <2>4. lock \in [Projects -> Slots \cup {None, Other}]
    OBVIOUS
  <2>5. pass \in [Slots -> [Documents -> Workers \cup {None}]]
    OBVIOUS
  <2>6. tool \in [Tools -> [rt : Slots \cup {None}, todo : SUBSET Documents]]
    OBVIOUS
  <2>7. /\ entries \in [Projects -> Slots \cup {None}] /\ closing \in Slots \cup {None}
        /\ tasks \in [Projects -> Slots \cup {None}]
        /\ fingerprints \in [Projects -> Versions \cup {None}]
    OBVIOUS
  <2>8. edits \in 0..MaxEdits /\ faults \in 0..MaxFaults
    OBVIOUS
  <2>9. /\ enabled \subseteq Projects /\ stop_event \in BOOLEAN
        /\ server \in {"serving", "exiting", "exited"}
        /\ main \in {"waiting", "gathering", "closing", "exited"}
    OBVIOUS
  <2> HIDE DEF Init
  <2> QED BY <2>1, <2>2, <2>3, <2>4, <2>5, <2>6, <2>7, <2>8, <2>9 DEF TypeOK
<1>2. LocksAreOwned /\ CacheIsOwned
  BY DEF LocksAreOwned, CacheIsOwned
<1>3. TasksAreCached /\ AgentsAreTasks
  BY DEF TasksAreCached, AgentsAreTasks, Tasked
<1>4. LastRound /\ ServeWaits
  BY DEF LastRound, ServeWaits, SupervisorEnded
<1>5. PassesAreOwned
  BY DEF PassesAreOwned
<1> QED BY <1>1, <1>2, <1>3, <1>4, <1>5 DEF SupervisorInv

-----------------------------------------------------------------------------
(* The steps.                                                               *)

\* A runtime that is closed is one no project has, and its agent has ended.
LEMMA CloseClientsStep ==
  ASSUME SupervisorInv, CloseClients
  PROVE  SupervisorInv'
<1> USE Names DEF SupervisorInv, CloseClients, registryVars, cacheVars, supVars, serveVars
<1>1. TypeOK'
  <2>1. rt' \in [Slots -> Runtime]
    BY RuntimeFlags DEF TypeOK
  <2> QED BY <2>1 DEF TypeOK
<1>2. LocksAreOwned'
  BY DEF TypeOK, LocksAreOwned, Runtime
<1>3. CacheIsOwned'
  BY DEF TypeOK, CacheIsOwned, Runtime, LocksAreOwned, TasksAreCached
<1>4. TasksAreCached'
  BY DEF TypeOK, TasksAreCached, Runtime, Tasked, SupervisorEnded, ServeWaits
<1>5. AgentsAreTasks'
  BY DEF TypeOK, AgentsAreTasks, Runtime, Done, TasksAreCached, CacheIsOwned, Tasked, ServeWaits, SupervisorEnded
<1>6. LastRound'
  BY DEF TypeOK, LastRound, Runtime, Tasked, TasksAreCached
<1>7. ServeWaits'
  BY DEF TypeOK, ServeWaits, Runtime, SupervisorEnded, LastRound
<1>8. PassesAreOwned'
  BY DEF TypeOK, PassesAreOwned, Runtime, AgentsAreTasks, TasksAreCached, LastRound, ServeWaits, SupervisorEnded, Done, Tasked, CacheIsOwned
<1> QED BY <1>1, <1>2, <1>3, <1>4, <1>5, <1>6, <1>7, <1>8

\* The lock file is released when the state store is closed.
LEMMA ReleaseLockStep ==
  ASSUME SupervisorInv, ReleaseLock
  PROVE  SupervisorInv'
<1> USE Names DEF SupervisorInv, ReleaseLock, registryVars, cacheVars, supVars, serveVars
<1>1. TypeOK'
  BY DEF TypeOK, Position, Runtime, Workers, Versions
<1>2. LocksAreOwned'
  BY DEF TypeOK, LocksAreOwned
<1>3. CacheIsOwned'
  BY DEF TypeOK, CacheIsOwned, LocksAreOwned, TasksAreCached
<1>4. TasksAreCached'
  BY DEF TypeOK, TasksAreCached, Tasked, SupervisorEnded, ServeWaits
<1>5. AgentsAreTasks'
  BY DEF TypeOK, AgentsAreTasks, Done, TasksAreCached, CacheIsOwned, Tasked, ServeWaits, SupervisorEnded
<1>6. LastRound'
  BY DEF TypeOK, LastRound, Tasked, TasksAreCached
<1>7. ServeWaits'
  BY DEF TypeOK, ServeWaits, SupervisorEnded, LastRound
<1>8. PassesAreOwned'
  BY DEF TypeOK, PassesAreOwned, AgentsAreTasks, TasksAreCached, LastRound, ServeWaits, SupervisorEnded, Done, Tasked, CacheIsOwned
<1> QED BY <1>1, <1>2, <1>3, <1>4, <1>5, <1>6, <1>7, <1>8

\* A task is told to stop, and the supervisor waits for it.
LEMMA StoppingStep ==
  ASSUME SupervisorInv, closing = None, UNCHANGED <<registryVars, pass, serveVars, tool>>,
         NEW p \in Tasked, NEW print \in Versions \cup {None}, Stopping(p, print),
         sup.at = "next",
         print = None => p \in sup.stops,
         print # None => ~sup.final /\ sup.stops = {}
  PROVE  SupervisorInv'
<1> USE Names DEF SupervisorInv, registryVars, cacheVars, supVars, serveVars
<1>1. p \in Projects /\ entries[p] = tasks[p] /\ entries[p] \in Slots
  BY DEF TypeOK, Tasked, TasksAreCached, ServeWaits, SupervisorEnded
<1>2. /\ rt' \in [Slots -> Runtime] /\ UNCHANGED <<cacheVars, tasks, fingerprints, faults>>
      /\ \A r \in Slots :
            /\ rt'[r].open = rt[r].open /\ rt'[r].project = rt[r].project
            /\ rt'[r].agent = rt[r].agent /\ rt'[r].todo = rt[r].todo
  <2>1. /\ rt \in [Slots -> Runtime] /\ rt' = [rt EXCEPT ![entries[p]].stopped = TRUE]
        /\ UNCHANGED <<cacheVars, tasks, fingerprints, faults>>
    BY DEF TypeOK, Stopping
  <2> HIDE DEF SupervisorInv
  <2>2. rt' \in [Slots -> Runtime]
    BY <1>1, <2>1, RuntimeFlags
  <2> QED BY <1>1, <2>1, <2>2 DEF Runtime
<1>3. /\ sup' \in Position
      /\ sup'.at = "drain" /\ sup'.project = p /\ sup'.print = print
      /\ sup'.stops = sup.stops \ {p} /\ sup'.final = sup.final
      /\ sup'.starts = IF print = None THEN sup.starts ELSE sup.starts \ {p}
  <2>1. sup \in Position
    BY DEF TypeOK
  <2>2. sup' = [sup EXCEPT !.at = "drain", !.project = p, !.print = print,
                           !.stops = sup.stops \ {p},
                           !.starts = IF print = None THEN sup.starts
                                      ELSE sup.starts \ {p}]
    BY DEF Stopping
  <2> HIDE DEF SupervisorInv
  <2> QED BY <1>1, <2>1, <2>2 DEF Position
<1> HIDE DEF Stopping
<1>4. TypeOK'
  BY <1>2, <1>3 DEF TypeOK
<1>5. LocksAreOwned' /\ CacheIsOwned'
  <2>1. LocksAreOwned'
    BY <1>2 DEF LocksAreOwned
  <2>2. CacheIsOwned'
    <3>1. \A q \in Projects : entries[q] # None => entries[q] \in Slots
      BY DEF TypeOK
    <3> QED BY <1>2, <3>1 DEF CacheIsOwned
  <2> QED BY <2>1, <2>2
<1>6. TasksAreCached' /\ AgentsAreTasks'
  <2>1. TasksAreCached'
    BY <1>1, <1>2, <1>3 DEF TasksAreCached, Tasked
  <2>2. AgentsAreTasks'
    BY <1>1, <1>2, <1>3 DEF AgentsAreTasks, Done, TypeOK
  <2> QED BY <2>1, <2>2
<1>7. LastRound' /\ ServeWaits'
  BY <1>1, <1>2, <1>3 DEF LastRound, ServeWaits, Tasked, SupervisorEnded, TypeOK
<1>8. PassesAreOwned'
  BY <1>2, <1>3 DEF PassesAreOwned, TypeOK
<1> QED BY <1>4, <1>5, <1>6, <1>7, <1>8

\* A round begins with the tasks there are.
LEMMA TopStep ==
  ASSUME SupervisorInv, closing = None, UNCHANGED <<registryVars, pass, serveVars, tool>>, Top
  PROVE  SupervisorInv'
<1> USE Names DEF SupervisorInv, Top, registryVars, cacheVars, supVars, serveVars
<1>1. TypeOK'
  <2>1. sup' \in Position
    BY DEF TypeOK, Position, Tasked
  <2> QED BY <2>1 DEF TypeOK
<1>2. LocksAreOwned'
  BY DEF TypeOK, LocksAreOwned
<1>3. CacheIsOwned'
  BY DEF TypeOK, CacheIsOwned, LocksAreOwned, TasksAreCached
<1>4. TasksAreCached'
  BY DEF TypeOK, TasksAreCached, Tasked, SupervisorEnded, ServeWaits
<1>5. AgentsAreTasks'
  BY DEF TypeOK, AgentsAreTasks, Done, TasksAreCached, CacheIsOwned, Tasked, ServeWaits, SupervisorEnded
<1>6. LastRound'
  BY DEF TypeOK, LastRound, Tasked, TasksAreCached
<1>7. ServeWaits'
  BY DEF TypeOK, ServeWaits, SupervisorEnded, LastRound
<1>8. PassesAreOwned'
  BY DEF TypeOK, PassesAreOwned, AgentsAreTasks, TasksAreCached, LastRound, ServeWaits, SupervisorEnded, Done, Tasked, CacheIsOwned
<1> QED BY <1>1, <1>2, <1>3, <1>4, <1>5, <1>6, <1>7, <1>8


\* The supervisor fails and leaves everything as it is.
LEMMA ListFailsStep ==
  ASSUME SupervisorInv, closing = None, UNCHANGED <<registryVars, pass, serveVars, tool>>, ListFails
  PROVE  SupervisorInv'
<1> USE Names DEF SupervisorInv, ListFails, Fault, registryVars, cacheVars, supVars, serveVars
<1>1. TypeOK'
  <2>1. sup' \in Position
    BY DEF TypeOK, Position
  <2>2. faults' \in 0..MaxFaults
    BY DEF TypeOK
  <2> QED BY <2>1, <2>2 DEF TypeOK
<1>2. LocksAreOwned'
  BY DEF TypeOK, LocksAreOwned
<1>3. CacheIsOwned'
  BY DEF TypeOK, CacheIsOwned, LocksAreOwned, TasksAreCached
<1>4. TasksAreCached'
  BY DEF TypeOK, TasksAreCached, Tasked, SupervisorEnded, ServeWaits
<1>5. AgentsAreTasks'
  BY DEF TypeOK, AgentsAreTasks, Done, TasksAreCached, CacheIsOwned, Tasked, ServeWaits, SupervisorEnded
<1>6. LastRound'
  BY DEF TypeOK, LastRound, Tasked, TasksAreCached
<1>7. ServeWaits'
  BY DEF TypeOK, ServeWaits, SupervisorEnded, LastRound
<1>8. PassesAreOwned'
  BY DEF TypeOK, PassesAreOwned, AgentsAreTasks, TasksAreCached, LastRound, ServeWaits, SupervisorEnded, Done, Tasked, CacheIsOwned
<1> QED BY <1>1, <1>2, <1>3, <1>4, <1>5, <1>6, <1>7, <1>8

\* A task is told to stop.
LEMMA StopDisabledStep ==
  ASSUME SupervisorInv, closing = None, UNCHANGED <<registryVars, pass, serveVars, tool>>,
         StopDisabled
  PROVE  SupervisorInv'
<1>1. PICK p \in sup.stops : Stopping(p, None)
  BY DEF StopDisabled
<1>2. p \in Tasked /\ sup.at = "next"
  BY DEF SupervisorInv, TasksAreCached, StopDisabled
<1> QED BY <1>1, <1>2, StoppingStep


\* A project is left alone, restarted or started.
LEMMA CheckStep ==
  ASSUME SupervisorInv, closing = None, UNCHANGED <<registryVars, pass, serveVars, tool>>, Check
  PROVE  SupervisorInv'
<1> USE Names DEF SupervisorInv
<1>1. PICK p \in sup.starts :
          \/ sup' = [sup EXCEPT !.at = "failed"]
             /\ UNCHANGED <<rt, cacheVars, tasks, fingerprints, faults>>
          \/ config[p] # Missing /\ tasks[p] # None /\ Stopping(p, config[p])
          \/ /\ config[p] # Missing
             /\ sup' = [sup EXCEPT !.at = IF tasks[p] = None THEN "get" ELSE "next",
                                   !.starts = sup.starts \ {p}, !.project = p,
                                   !.print = config[p]]
             /\ UNCHANGED <<rt, cacheVars, tasks, fingerprints, faults>>
  BY DEF Check
<1>2. /\ p \in Projects /\ sup.at = "next" /\ sup.stops = {} /\ ~sup.final
      /\ config[p] # Missing => config[p] \in Versions
  BY DEF TypeOK, Position, LastRound, Check
<1>3. sup \in Position
  BY DEF TypeOK
<1>4. CASE sup' = [sup EXCEPT !.at = "failed"]
             /\ UNCHANGED <<rt, cacheVars, tasks, fingerprints, faults>>
  <2>1. /\ sup' \in Position /\ sup'.at = "failed" /\ ~sup'.final
        /\ sup'.stops = {}
    BY <1>2, <1>3, <1>4, Zenon DEF Position
  <2> USE DEF registryVars, cacheVars, supVars, serveVars
  <2>2. TypeOK' /\ LocksAreOwned' /\ CacheIsOwned'
    BY <1>4, <2>1 DEF TypeOK, LocksAreOwned, CacheIsOwned
  <2>3. TasksAreCached' /\ AgentsAreTasks' /\ PassesAreOwned'
    BY <1>2, <1>4, <2>1
    DEF TasksAreCached, AgentsAreTasks, PassesAreOwned, Tasked, Done
  <2>4. LastRound' /\ ServeWaits'
    BY <1>2, <1>4, <2>1 DEF LastRound, ServeWaits, Tasked, SupervisorEnded
  <2> QED BY <2>2, <2>3, <2>4
<1>5. CASE config[p] # Missing /\ tasks[p] # None /\ Stopping(p, config[p])
  <2>1. p \in Tasked /\ config[p] # None
    BY <1>2, <1>5 DEF Tasked, Versions
  <2> QED BY <1>2, <1>5, <2>1, StoppingStep
<1>6. CASE /\ config[p] # Missing
           /\ sup' = [sup EXCEPT !.at = IF tasks[p] = None THEN "get" ELSE "next",
                                 !.starts = sup.starts \ {p}, !.project = p,
                                 !.print = config[p]]
           /\ UNCHANGED <<rt, cacheVars, tasks, fingerprints, faults>>
  <2>1. /\ sup' \in Position /\ ~sup'.final /\ sup'.stops = {} /\ sup'.project = p
        /\ sup'.at = IF tasks[p] = None THEN "get" ELSE "next"
    <3> HIDE DEF SupervisorInv
    <3> QED BY <1>2, <1>3, <1>6 DEF Position
  <2> USE DEF registryVars, cacheVars, supVars, serveVars
  <2>2. TypeOK' /\ LocksAreOwned' /\ CacheIsOwned'
    BY <1>6, <2>1 DEF TypeOK, LocksAreOwned, CacheIsOwned
  <2>3. TasksAreCached' /\ AgentsAreTasks' /\ PassesAreOwned'
    BY <1>2, <1>6, <2>1
    DEF TasksAreCached, AgentsAreTasks, PassesAreOwned, Tasked, Done
  <2>4. LastRound' /\ ServeWaits'
    BY <1>2, <1>6, <2>1 DEF LastRound, ServeWaits, Tasked, SupervisorEnded
  <2> QED BY <2>2, <2>3, <2>4
<1> QED BY <1>1, <1>4, <1>5, <1>6


\* A task is forgotten when it has ended.
LEMMA DrainStep ==
  ASSUME SupervisorInv, closing = None, UNCHANGED <<registryVars, pass, serveVars, tool>>, Drain
  PROVE  SupervisorInv'
<1> USE Names DEF SupervisorInv, Drain, registryVars, cacheVars, supVars, serveVars
<1>1. TypeOK'
  BY DEF TypeOK, Position, Runtime, Workers, Versions
<1>2. LocksAreOwned'
  BY DEF TypeOK, LocksAreOwned
<1>3. CacheIsOwned'
  BY DEF TypeOK, CacheIsOwned, LocksAreOwned, TasksAreCached
<1>4. TasksAreCached'
  BY DEF TypeOK, TasksAreCached, Tasked, SupervisorEnded, ServeWaits
<1>5. AgentsAreTasks'
  BY DEF TypeOK, AgentsAreTasks, Done, TasksAreCached, CacheIsOwned, Tasked, ServeWaits, SupervisorEnded
<1>6. LastRound'
  BY DEF TypeOK, LastRound, Tasked, TasksAreCached
<1>7. ServeWaits'
  BY DEF TypeOK, ServeWaits, SupervisorEnded, LastRound
<1>8. PassesAreOwned'
  BY DEF TypeOK, PassesAreOwned, AgentsAreTasks, TasksAreCached, LastRound, ServeWaits, SupervisorEnded, Done, Tasked, CacheIsOwned
<1> QED BY <1>1, <1>2, <1>3, <1>4, <1>5, <1>6, <1>7, <1>8

\* The runtime of a task that has ended leaves the cache.
LEMMA InvalidateStep ==
  ASSUME SupervisorInv, closing = None, UNCHANGED <<registryVars, pass, serveVars, tool>>, Invalidate
  PROVE  SupervisorInv'
<1> USE Names DEF SupervisorInv, Invalidate, Forget, registryVars, cacheVars, supVars, serveVars
<1>1. TypeOK'
  <2>1. entries[sup.project] \in Slots
    BY DEF TypeOK, TasksAreCached
  <2>2. rt' \in [Slots -> Runtime]
    BY <2>1, RuntimeFlags DEF TypeOK
  <2>3. sup' \in Position
    BY DEF TypeOK, Position
  <2> QED BY <2>1, <2>2, <2>3 DEF TypeOK
<1>2. LocksAreOwned'
  BY DEF TypeOK, LocksAreOwned, Runtime
<1>3. CacheIsOwned'
  BY DEF TypeOK, CacheIsOwned, Runtime, LocksAreOwned, TasksAreCached
<1>4. TasksAreCached'
  BY DEF TypeOK, TasksAreCached, Runtime, Tasked, SupervisorEnded, ServeWaits
<1>5. AgentsAreTasks'
  BY DEF TypeOK, AgentsAreTasks, Runtime, Done, TasksAreCached, CacheIsOwned, Tasked, ServeWaits, SupervisorEnded
<1>6. LastRound'
  BY DEF TypeOK, LastRound, Runtime, Tasked, TasksAreCached
<1>7. ServeWaits'
  BY DEF TypeOK, ServeWaits, Runtime, SupervisorEnded, LastRound
<1>8. PassesAreOwned'
  BY DEF TypeOK, PassesAreOwned, Runtime, AgentsAreTasks, TasksAreCached, LastRound, ServeWaits, SupervisorEnded, Done, Tasked, CacheIsOwned
<1> QED BY <1>1, <1>2, <1>3, <1>4, <1>5, <1>6, <1>7, <1>8

\* What the cache builds is its project's, and nothing referred to its slot.
LEMMA BuildKeeps ==
  ASSUME SupervisorInv, NEW p \in Projects, Build(p), entries[p] = None,
         UNCHANGED <<closing, pass>>
  PROVE  /\ rt' \in [Slots -> Runtime] /\ lock' \in [Projects -> Slots \cup {None, Other}]
         /\ entries' \in [Projects -> Slots \cup {None}]
         /\ entries'[p] \in Slots /\ rt'[entries'[p]].agent = "none"
         /\ \A q \in Projects \ {p} : entries'[q] = entries[q]
         /\ \A s \in Slots \ {entries'[p]} : rt'[s] = rt[s]
         /\ closing # entries'[p]
         /\ \A q \in Projects : entries[q] # entries'[p]
         /\ \A d \in Documents : pass[entries'[p]][d] = None
         /\ LocksAreOwned' /\ CacheIsOwned'
<1> USE Names DEF SupervisorInv
<1>1. PICK r \in Slots :
         /\ Free(r) /\ config[p] # Missing /\ lock[p] = None
         /\ lock' = [lock EXCEPT ![p] = r]
         /\ rt' = [rt EXCEPT ![r] = [project |-> p, config |-> config[p], open |-> TRUE,
                                     stopped |-> FALSE, agent |-> "none", todo |-> {}]]
         /\ entries' = [entries EXCEPT ![p] = r]
  BY DEF Build
<1>2. /\ ~rt[r].open /\ closing # r
      /\ \A q \in Projects : entries[q] # r /\ tasks[q] # r /\ lock[q] # r
      /\ \A d \in Documents : pass[r][d] = None
  BY <1>1 DEF Free
<1>3. [project |-> p, config |-> config[p], open |-> TRUE, stopped |-> FALSE,
       agent |-> "none", todo |-> {}] \in Runtime
  BY <1>1 DEF Runtime, TypeOK
<1>4. /\ rt' \in [Slots -> Runtime] /\ lock' \in [Projects -> Slots \cup {None, Other}]
      /\ entries' \in [Projects -> Slots \cup {None}]
  BY <1>1, <1>3 DEF TypeOK
<1>5. /\ rt'[r].project = p /\ rt'[r].open /\ rt'[r].agent = "none"
      /\ \A s \in Slots \ {r} : rt'[s] = rt[s]
      /\ entries'[p] = r /\ lock'[p] = r
      /\ \A q \in Projects \ {p} : entries'[q] = entries[q] /\ lock'[q] = lock[q]
  BY <1>1 DEF TypeOK
<1>6. LocksAreOwned'
  <2>1. ASSUME NEW s \in Slots, rt'[s].open
        PROVE  rt'[s].project \in Projects /\ lock'[rt'[s].project] = s
    <3>1. CASE s = r
      BY <3>1, <1>5
    <3>2. CASE s # r
      BY <2>1, <3>2, <1>1, <1>5 DEF LocksAreOwned
    <3> QED BY <3>1, <3>2
  <2>2. ASSUME NEW q \in Projects, NEW s \in Slots, lock'[q] = s
        PROVE  rt'[s].project = q /\ s \in {entries'[q], closing'}
    <3>1. CASE q = p
      BY <2>2, <3>1, <1>5
    <3>2. CASE q # p
      BY <2>2, <3>2, <1>2, <1>5 DEF LocksAreOwned
    <3> QED BY <3>1, <3>2
  <2> QED BY <2>1, <2>2 DEF LocksAreOwned
<1>7. CacheIsOwned'
  <2> SUFFICES ASSUME NEW q \in Projects, entries'[q] # None
               PROVE  /\ rt'[entries'[q]].open /\ rt'[entries'[q]].project = q
                      /\ closing' # entries'[q]
    BY DEF CacheIsOwned
  <2>1. CASE q = p
    BY <2>1, <1>2, <1>5
  <2>2. CASE q # p
    <3>1. entries'[q] = entries[q] /\ entries[q] \in Slots \ {r}
      BY <2>2, <1>2, <1>5 DEF TypeOK
    <3>2. rt'[entries[q]] = rt[entries[q]]
      BY <1>5, <3>1
    <3> QED BY <3>1, <3>2 DEF CacheIsOwned
  <2> QED BY <2>1, <2>2
<1> QED BY <1>2, <1>4, <1>5, <1>6, <1>7

\* The cache hands out an open runtime.
LEMMA GetStep ==
  ASSUME SupervisorInv, closing = None, UNCHANGED <<registryVars, pass, serveVars, tool>>, Get
  PROVE  SupervisorInv'
<1> USE Names DEF SupervisorInv, registryVars, serveVars
<1> DEFINE p == sup.project
<1>1. /\ p \in Projects \ Tasked /\ sup.at = "get" /\ sup \in Position
      /\ sup' = [sup EXCEPT !.at = "start"] /\ UNCHANGED <<closing, tasks, fingerprints, faults>>
  BY DEF Get, TasksAreCached, TypeOK
<1>2. /\ sup' \in Position /\ sup'.at = "start" /\ sup'.project = p
      /\ sup'.stops = sup.stops /\ sup'.starts = sup.starts /\ sup'.final = sup.final
  <2> HIDE DEF SupervisorInv
  <2> QED BY <1>1 DEF Position
<1>3. /\ rt' \in [Slots -> Runtime] /\ lock' \in [Projects -> Slots \cup {None, Other}]
      /\ entries' \in [Projects -> Slots \cup {None}] /\ entries'[p] # None
      /\ LocksAreOwned' /\ CacheIsOwned'
      /\ \A q \in Projects \ {p} : entries'[q] = entries[q]
      /\ \A q \in Projects \ {p} : entries[q] # None => rt'[entries[q]] = rt[entries[q]]
      /\ rt'[entries'[p]].agent = "none"
      /\ \A s \in Slots : rt'[s] = rt[s] \/ \A d \in Documents : pass[s][d] = None
  <2>1. CASE entries[p] # None /\ UNCHANGED <<lock, rt, entries>>
    BY <1>1, <2>1 DEF TypeOK, LocksAreOwned, CacheIsOwned, AgentsAreTasks, Tasked
  <2>2. CASE entries[p] = None /\ Build(p)
    BY <1>1, <2>2, BuildKeeps DEF TypeOK
  <2> QED BY <2>1, <2>2 DEF Get
<1>4. TypeOK'
  BY <1>1, <1>2, <1>3 DEF TypeOK
<1>5. TasksAreCached'
  BY <1>1, <1>2, <1>3 DEF TasksAreCached, Tasked, ServeWaits, SupervisorEnded
<1>6. AgentsAreTasks'
  BY <1>1, <1>2, <1>3 DEF AgentsAreTasks, Done
<1>7. LastRound' /\ ServeWaits'
  BY <1>1, <1>2 DEF LastRound, ServeWaits, Tasked, SupervisorEnded
<1>8. PassesAreOwned'
  BY <1>1, <1>3, closing = None DEF PassesAreOwned, TypeOK, Workers
<1> QED BY <1>3, <1>4, <1>5, <1>6, <1>7, <1>8


\* A project waits for the next round.
LEMMA GetFailsStep ==
  ASSUME SupervisorInv, closing = None, UNCHANGED <<registryVars, pass, serveVars, tool>>, GetFails
  PROVE  SupervisorInv'
<1> USE Names DEF SupervisorInv, GetFails, Fault, registryVars, cacheVars, supVars, serveVars
<1>1. TypeOK'
  <2>1. sup' \in Position
    BY DEF TypeOK, Position
  <2>2. faults' \in 0..MaxFaults
    BY DEF TypeOK
  <2> QED BY <2>1, <2>2 DEF TypeOK
<1>2. LocksAreOwned'
  BY DEF TypeOK, LocksAreOwned, Runtime
<1>3. CacheIsOwned'
  BY DEF TypeOK, CacheIsOwned, Runtime, LocksAreOwned, TasksAreCached
<1>4. TasksAreCached'
  BY DEF TypeOK, TasksAreCached, Runtime, Tasked, SupervisorEnded, ServeWaits
<1>5. AgentsAreTasks'
  BY DEF TypeOK, AgentsAreTasks, Runtime, Done, TasksAreCached, CacheIsOwned, Tasked, ServeWaits, SupervisorEnded
<1>6. LastRound'
  BY DEF TypeOK, LastRound, Runtime, Tasked, TasksAreCached
<1>7. ServeWaits'
  BY DEF TypeOK, ServeWaits, Runtime, SupervisorEnded, LastRound
<1>8. PassesAreOwned'
  BY DEF TypeOK, PassesAreOwned, Runtime, AgentsAreTasks, TasksAreCached, LastRound, ServeWaits, SupervisorEnded, Done, Tasked, CacheIsOwned
<1> QED BY <1>1, <1>2, <1>3, <1>4, <1>5, <1>6, <1>7, <1>8

\* A task is started on the runtime the cache has.
LEMMA StartStep ==
  ASSUME SupervisorInv, closing = None, UNCHANGED <<registryVars, pass, serveVars, tool>>, Start
  PROVE  SupervisorInv'
<1> USE Names DEF SupervisorInv, Start, registryVars, cacheVars, supVars, serveVars
<1>1. TypeOK'
  <2>1. entries[sup.project] \in Slots /\ sup.project \in Projects
    BY DEF TypeOK, TasksAreCached
  <2>2. rt' \in [Slots -> Runtime]
    <3>1. rt \in [Slots -> Runtime] /\ Documents \in SUBSET Documents
      BY DEF TypeOK
    <3> HIDE DEF SupervisorInv
    <3> QED BY <2>1, <3>1, RuntimeTodo
  <2>3. sup' \in Position
    BY DEF TypeOK, Position
  <2>4. fingerprints' \in [Projects -> Versions \cup {None}]
    BY DEF TypeOK, Position
  <2> QED BY <2>1, <2>2, <2>3, <2>4 DEF TypeOK
<1>2. LocksAreOwned'
  BY DEF TypeOK, LocksAreOwned, Runtime
<1>3. CacheIsOwned'
  BY DEF TypeOK, CacheIsOwned, Runtime, LocksAreOwned, TasksAreCached
<1>4. TasksAreCached'
  BY DEF TypeOK, TasksAreCached, Runtime, Tasked, SupervisorEnded, ServeWaits
<1>5. AgentsAreTasks'
  BY DEF TypeOK, AgentsAreTasks, Runtime, Done, TasksAreCached, CacheIsOwned, Tasked, ServeWaits, SupervisorEnded
<1>6. LastRound'
  BY DEF TypeOK, LastRound, Runtime, Tasked, TasksAreCached
<1>7. ServeWaits'
  BY DEF TypeOK, ServeWaits, Runtime, SupervisorEnded, LastRound
<1>8. PassesAreOwned'
  BY DEF TypeOK, PassesAreOwned, Runtime, AgentsAreTasks, TasksAreCached, LastRound, ServeWaits, SupervisorEnded, Done, Tasked, CacheIsOwned
<1> QED BY <1>1, <1>2, <1>3, <1>4, <1>5, <1>6, <1>7, <1>8

\* A round ends.
LEMMA RestStep ==
  ASSUME SupervisorInv, closing = None, UNCHANGED <<registryVars, pass, serveVars, tool>>, Rest
  PROVE  SupervisorInv'
<1> USE Names DEF SupervisorInv, Rest, registryVars, cacheVars, supVars, serveVars
<1>1. TypeOK'
  BY DEF TypeOK, Position, Runtime, Workers, Versions
<1>2. LocksAreOwned'
  BY DEF TypeOK, LocksAreOwned
<1>3. CacheIsOwned'
  BY DEF TypeOK, CacheIsOwned, LocksAreOwned, TasksAreCached
<1>4. TasksAreCached'
  BY DEF TypeOK, TasksAreCached, Tasked, SupervisorEnded, ServeWaits
<1>5. AgentsAreTasks'
  BY DEF TypeOK, AgentsAreTasks, Done, TasksAreCached, CacheIsOwned, Tasked, ServeWaits, SupervisorEnded
<1>6. LastRound'
  BY DEF TypeOK, LastRound, Tasked, TasksAreCached
<1>7. ServeWaits'
  BY DEF TypeOK, ServeWaits, SupervisorEnded, LastRound
<1>8. PassesAreOwned'
  BY DEF TypeOK, PassesAreOwned, AgentsAreTasks, TasksAreCached, LastRound, ServeWaits, SupervisorEnded, Done, Tasked, CacheIsOwned
<1> QED BY <1>1, <1>2, <1>3, <1>4, <1>5, <1>6, <1>7, <1>8

\* Shutdown begins.
LEMMA MainStopsStep ==
  ASSUME SupervisorInv, UNCHANGED <<registryVars, pass, supVars, tool, faults>>, MainStops
  PROVE  SupervisorInv'
<1> USE Names DEF SupervisorInv, MainStops, registryVars, cacheVars, supVars, serveVars
<1>1. TypeOK'
  BY DEF TypeOK, Position, Runtime, Workers, Versions
<1>2. LocksAreOwned'
  BY DEF TypeOK, LocksAreOwned
<1>3. CacheIsOwned'
  BY DEF TypeOK, CacheIsOwned, LocksAreOwned, TasksAreCached
<1>4. TasksAreCached'
  BY DEF TypeOK, TasksAreCached, Tasked, SupervisorEnded, ServeWaits
<1>5. AgentsAreTasks'
  BY DEF TypeOK, AgentsAreTasks, Done, TasksAreCached, CacheIsOwned, Tasked, ServeWaits, SupervisorEnded
<1>6. LastRound'
  BY DEF TypeOK, LastRound, Tasked, TasksAreCached
<1>7. ServeWaits'
  BY DEF TypeOK, ServeWaits, SupervisorEnded, LastRound
<1>8. PassesAreOwned'
  BY DEF TypeOK, PassesAreOwned, AgentsAreTasks, TasksAreCached, LastRound, ServeWaits, SupervisorEnded, Done, Tasked, CacheIsOwned
<1> QED BY <1>1, <1>2, <1>3, <1>4, <1>5, <1>6, <1>7, <1>8

\* The server and the supervisor have ended.
LEMMA MainGathersStep ==
  ASSUME SupervisorInv, UNCHANGED <<registryVars, pass, supVars, tool, faults>>, MainGathers
  PROVE  SupervisorInv'
<1> USE Names DEF SupervisorInv, MainGathers, registryVars, cacheVars, supVars, serveVars
<1>1. TypeOK'
  BY DEF TypeOK, Position, Runtime, Workers, Versions
<1>2. LocksAreOwned'
  BY DEF TypeOK, LocksAreOwned
<1>3. CacheIsOwned'
  BY DEF TypeOK, CacheIsOwned, LocksAreOwned, TasksAreCached
<1>4. TasksAreCached'
  BY DEF TypeOK, TasksAreCached, Tasked, SupervisorEnded, ServeWaits
<1>5. AgentsAreTasks'
  BY DEF TypeOK, AgentsAreTasks, Done, TasksAreCached, CacheIsOwned, Tasked, ServeWaits, SupervisorEnded
<1>6. LastRound'
  BY DEF TypeOK, LastRound, Tasked, TasksAreCached
<1>7. ServeWaits'
  BY DEF TypeOK, ServeWaits, SupervisorEnded, LastRound
<1>8. PassesAreOwned'
  BY DEF TypeOK, PassesAreOwned, AgentsAreTasks, TasksAreCached, LastRound, ServeWaits, SupervisorEnded, Done, Tasked, CacheIsOwned
<1> QED BY <1>1, <1>2, <1>3, <1>4, <1>5, <1>6, <1>7, <1>8

\* What the supervisor left is closed.
LEMMA MainClosesStep ==
  ASSUME SupervisorInv, UNCHANGED <<registryVars, pass, supVars, tool, faults>>, MainCloses
  PROVE  SupervisorInv'
<1> USE Names DEF SupervisorInv, MainCloses, Forget, registryVars, cacheVars, supVars, serveVars
<1>1. TypeOK'
  <2>1. PICK r \in Slots : rt' = [rt EXCEPT ![r].stopped = TRUE]
    BY DEF TypeOK
  <2>2. rt' \in [Slots -> Runtime]
    <3>1. rt \in [Slots -> Runtime]
      BY DEF TypeOK
    <3> HIDE DEF SupervisorInv, MainCloses
    <3> QED BY <2>1, <3>1, RuntimeFlags
  <2>3. closing' \in Slots \cup {None} /\ entries' \in [Projects -> Slots \cup {None}]
    BY DEF TypeOK
  <2> QED BY <2>1, <2>2, <2>3 DEF TypeOK
<1>2. LocksAreOwned'
  BY DEF TypeOK, LocksAreOwned, Runtime
<1>3. CacheIsOwned'
  BY DEF TypeOK, CacheIsOwned, Runtime, LocksAreOwned, TasksAreCached
<1>4. TasksAreCached'
  BY DEF TypeOK, TasksAreCached, Runtime, Tasked, SupervisorEnded, ServeWaits
<1>5. AgentsAreTasks'
  BY DEF TypeOK, AgentsAreTasks, Runtime, Done, TasksAreCached, CacheIsOwned, Tasked, ServeWaits, SupervisorEnded
<1>6. LastRound'
  BY DEF TypeOK, LastRound, Runtime, Tasked, TasksAreCached
<1>7. ServeWaits'
  BY DEF TypeOK, ServeWaits, Runtime, SupervisorEnded, LastRound
<1>8. PassesAreOwned'
  BY DEF TypeOK, PassesAreOwned, Runtime, AgentsAreTasks, TasksAreCached, LastRound, ServeWaits, SupervisorEnded, Done, Tasked, CacheIsOwned
<1> QED BY <1>1, <1>2, <1>3, <1>4, <1>5, <1>6, <1>7, <1>8

\* The server process ends.
LEMMA MainReturnsStep ==
  ASSUME SupervisorInv, UNCHANGED <<registryVars, pass, supVars, tool, faults>>, MainReturns
  PROVE  SupervisorInv'
<1> USE Names DEF SupervisorInv, MainReturns, registryVars, cacheVars, supVars, serveVars
<1>1. TypeOK'
  BY DEF TypeOK, Position, Runtime, Workers, Versions
<1>2. LocksAreOwned'
  BY DEF TypeOK, LocksAreOwned
<1>3. CacheIsOwned'
  BY DEF TypeOK, CacheIsOwned, LocksAreOwned, TasksAreCached
<1>4. TasksAreCached'
  BY DEF TypeOK, TasksAreCached, Tasked, SupervisorEnded, ServeWaits
<1>5. AgentsAreTasks'
  BY DEF TypeOK, AgentsAreTasks, Done, TasksAreCached, CacheIsOwned, Tasked, ServeWaits, SupervisorEnded
<1>6. LastRound'
  BY DEF TypeOK, LastRound, Tasked, TasksAreCached
<1>7. ServeWaits'
  BY DEF TypeOK, ServeWaits, SupervisorEnded, LastRound
<1>8. PassesAreOwned'
  BY DEF TypeOK, PassesAreOwned, AgentsAreTasks, TasksAreCached, LastRound, ServeWaits, SupervisorEnded, Done, Tasked, CacheIsOwned
<1> QED BY <1>1, <1>2, <1>3, <1>4, <1>5, <1>6, <1>7, <1>8

\* No call is left when the HTTP server returns.
LEMMA ServerReturnsStep ==
  ASSUME SupervisorInv, UNCHANGED <<registryVars, pass, supVars, tool, faults>>, ServerReturns
  PROVE  SupervisorInv'
<1> USE Names DEF SupervisorInv, ServerReturns, registryVars, cacheVars, supVars, serveVars
<1>1. TypeOK'
  BY DEF TypeOK, Position, Runtime, Workers, Versions
<1>2. LocksAreOwned'
  BY DEF TypeOK, LocksAreOwned
<1>3. CacheIsOwned'
  BY DEF TypeOK, CacheIsOwned, LocksAreOwned, TasksAreCached
<1>4. TasksAreCached'
  BY DEF TypeOK, TasksAreCached, Tasked, SupervisorEnded, ServeWaits
<1>5. AgentsAreTasks'
  BY DEF TypeOK, AgentsAreTasks, Done, TasksAreCached, CacheIsOwned, Tasked, ServeWaits, SupervisorEnded
<1>6. LastRound'
  BY DEF TypeOK, LastRound, Tasked, TasksAreCached
<1>7. ServeWaits'
  BY DEF TypeOK, ServeWaits, SupervisorEnded, LastRound
<1>8. PassesAreOwned'
  BY DEF TypeOK, PassesAreOwned, AgentsAreTasks, TasksAreCached, LastRound, ServeWaits, SupervisorEnded, Done, Tasked, CacheIsOwned
<1> QED BY <1>1, <1>2, <1>3, <1>4, <1>5, <1>6, <1>7, <1>8

\* A signal stops the HTTP server first.
LEMMA SignalStep ==
  ASSUME SupervisorInv, Signal
  PROVE  SupervisorInv'
<1> USE Names DEF SupervisorInv, Signal, registryVars, cacheVars, supVars, serveVars
<1>1. TypeOK'
  BY DEF TypeOK, Position, Runtime, Workers, Versions
<1>2. LocksAreOwned'
  BY DEF TypeOK, LocksAreOwned
<1>3. CacheIsOwned'
  BY DEF TypeOK, CacheIsOwned, LocksAreOwned, TasksAreCached
<1>4. TasksAreCached'
  BY DEF TypeOK, TasksAreCached, Tasked, SupervisorEnded, ServeWaits
<1>5. AgentsAreTasks'
  BY DEF TypeOK, AgentsAreTasks, Done, TasksAreCached, CacheIsOwned, Tasked, ServeWaits, SupervisorEnded
<1>6. LastRound'
  BY DEF TypeOK, LastRound, Tasked, TasksAreCached
<1>7. ServeWaits'
  BY DEF TypeOK, ServeWaits, SupervisorEnded, LastRound
<1>8. PassesAreOwned'
  BY DEF TypeOK, PassesAreOwned, AgentsAreTasks, TasksAreCached, LastRound, ServeWaits, SupervisorEnded, Done, Tasked, CacheIsOwned
<1> QED BY <1>1, <1>2, <1>3, <1>4, <1>5, <1>6, <1>7, <1>8

\* Changes of the registry wait for the supervisor.
LEMMA ConfigureStep ==
  ASSUME SupervisorInv, Configure
  PROVE  SupervisorInv'
<1> USE Names DEF SupervisorInv, Configure, registryVars, cacheVars, supVars, serveVars
<1>1. TypeOK'
  BY DEF TypeOK, Position, Runtime, Workers, Versions
<1>2. LocksAreOwned'
  BY DEF TypeOK, LocksAreOwned
<1>3. CacheIsOwned'
  BY DEF TypeOK, CacheIsOwned, LocksAreOwned, TasksAreCached
<1>4. TasksAreCached'
  BY DEF TypeOK, TasksAreCached, Tasked, SupervisorEnded, ServeWaits
<1>5. AgentsAreTasks'
  BY DEF TypeOK, AgentsAreTasks, Done, TasksAreCached, CacheIsOwned, Tasked, ServeWaits, SupervisorEnded
<1>6. LastRound'
  BY DEF TypeOK, LastRound, Tasked, TasksAreCached
<1>7. ServeWaits'
  BY DEF TypeOK, ServeWaits, SupervisorEnded, LastRound
<1>8. PassesAreOwned'
  BY DEF TypeOK, PassesAreOwned, AgentsAreTasks, TasksAreCached, LastRound, ServeWaits, SupervisorEnded, Done, Tasked, CacheIsOwned
<1> QED BY <1>1, <1>2, <1>3, <1>4, <1>5, <1>6, <1>7, <1>8

\* Another process gets the lock file only when nobody has it.
LEMMA OtherLocksStep ==
  ASSUME SupervisorInv, OtherLocks
  PROVE  SupervisorInv'
<1> USE Names DEF SupervisorInv, OtherLocks, Fault, registryVars, cacheVars, supVars, serveVars
<1>1. TypeOK'
  BY DEF TypeOK, Position, Runtime, Workers, Versions
<1>2. LocksAreOwned'
  BY DEF TypeOK, LocksAreOwned
<1>3. CacheIsOwned'
  BY DEF TypeOK, CacheIsOwned, LocksAreOwned, TasksAreCached
<1>4. TasksAreCached'
  BY DEF TypeOK, TasksAreCached, Tasked, SupervisorEnded, ServeWaits
<1>5. AgentsAreTasks'
  BY DEF TypeOK, AgentsAreTasks, Done, TasksAreCached, CacheIsOwned, Tasked, ServeWaits, SupervisorEnded
<1>6. LastRound'
  BY DEF TypeOK, LastRound, Tasked, TasksAreCached
<1>7. ServeWaits'
  BY DEF TypeOK, ServeWaits, SupervisorEnded, LastRound
<1>8. PassesAreOwned'
  BY DEF TypeOK, PassesAreOwned, AgentsAreTasks, TasksAreCached, LastRound, ServeWaits, SupervisorEnded, Done, Tasked, CacheIsOwned
<1> QED BY <1>1, <1>2, <1>3, <1>4, <1>5, <1>6, <1>7, <1>8

\* Another process releases only its own lock file.
LEMMA OtherUnlocksStep ==
  ASSUME SupervisorInv, OtherUnlocks
  PROVE  SupervisorInv'
<1> USE Names DEF SupervisorInv, OtherUnlocks, registryVars, cacheVars, supVars, serveVars
<1>1. TypeOK'
  BY DEF TypeOK, Position, Runtime, Workers, Versions
<1>2. LocksAreOwned'
  BY DEF TypeOK, LocksAreOwned
<1>3. CacheIsOwned'
  BY DEF TypeOK, CacheIsOwned, LocksAreOwned, TasksAreCached
<1>4. TasksAreCached'
  BY DEF TypeOK, TasksAreCached, Tasked, SupervisorEnded, ServeWaits
<1>5. AgentsAreTasks'
  BY DEF TypeOK, AgentsAreTasks, Done, TasksAreCached, CacheIsOwned, Tasked, ServeWaits, SupervisorEnded
<1>6. LastRound'
  BY DEF TypeOK, LastRound, Tasked, TasksAreCached
<1>7. ServeWaits'
  BY DEF TypeOK, ServeWaits, SupervisorEnded, LastRound
<1>8. PassesAreOwned'
  BY DEF TypeOK, PassesAreOwned, AgentsAreTasks, TasksAreCached, LastRound, ServeWaits, SupervisorEnded, Done, Tasked, CacheIsOwned
<1> QED BY <1>1, <1>2, <1>3, <1>4, <1>5, <1>6, <1>7, <1>8

\* A step of an agent touches only its own runtime; one that had ended can only fail.
LEMMA AgentEffect ==
  ASSUME SupervisorInv, NEW r \in Slots,
         UNCHANGED <<registryVars, cacheVars, supVars, serveVars, tool>>,
         rt' \in [Slots -> Runtime],
         pass' \in [Slots -> [Documents -> Workers \cup {None}]],
         faults' \in 0..MaxFaults,
         rt'[r].open = rt[r].open, rt'[r].project = rt[r].project,
         \A s \in Slots \ {r} : rt'[s] = rt[s] /\ pass'[s] = pass[s],
         rt[r].agent \in {"none", "ended", "failed"} =>
            \/ rt'[r].agent = rt[r].agent
            \/ ~rt[r].open /\ rt'[r].agent = "failed",
         \A d \in Documents : pass'[r][d] \in {pass[r][d], None, Agent},
         \A d \in Documents : (pass'[r][d] = Agent /\ rt[r].open) =>
            rt'[r].agent \in {"first", "round"} /\ d \in rt'[r].todo
  PROVE  SupervisorInv'
<1> USE Names DEF SupervisorInv, registryVars, cacheVars, supVars, serveVars
<1>1. \A s \in Slots : rt'[s].open = rt[s].open /\ rt'[s].project = rt[s].project
  OBVIOUS
<1>2. TypeOK'
  BY DEF TypeOK
<1>3. LocksAreOwned' /\ CacheIsOwned'
  <2>1. LocksAreOwned'
    BY <1>1 DEF LocksAreOwned
  <2>2. CacheIsOwned'
    <3>1. \A q \in Projects : entries[q] # None => entries[q] \in Slots
      BY DEF TypeOK
    <3> QED BY <1>1, <3>1 DEF CacheIsOwned
  <2> QED BY <2>1, <2>2
<1>4. TasksAreCached' /\ LastRound' /\ ServeWaits'
  BY DEF TasksAreCached, LastRound, ServeWaits, Tasked, SupervisorEnded
<1>5. AgentsAreTasks'
  <2> SUFFICES ASSUME NEW p \in Projects, entries[p] # None
               PROVE  \/ tasks[p] = entries[p]
                      \/ sup.at = "invalidate" /\ p = sup.project /\ Done(entries[p])'
                      \/ rt'[entries[p]].agent = "none"
    BY DEF AgentsAreTasks
  <2>1. entries[p] \in Slots /\ rt[entries[p]].open
    BY DEF TypeOK, CacheIsOwned
  <2>2. rt[entries[p]].agent \in {"none", "ended", "failed"} =>
            rt'[entries[p]].agent = rt[entries[p]].agent
    BY <2>1
  <2> QED BY <2>2 DEF AgentsAreTasks, Done
<1>6. PassesAreOwned'
  <2>1. ASSUME NEW s \in Slots, NEW d \in Documents, NEW t \in Tools, pass'[s][d] = t
        PROVE  /\ tool'[t].rt = s
               /\ \A e \in Documents : pass'[s][e] = t => e = d
    <3>1. \A e \in Documents : pass'[s][e] = t => pass[s][e] = t
      OBVIOUS
    <3> QED BY <2>1, <3>1 DEF PassesAreOwned
  <2>2. ASSUME NEW s \in Slots, NEW d \in Documents, pass'[s][d] = Agent, rt'[s].open
        PROVE  rt'[s].agent \in {"first", "round"} /\ d \in rt'[s].todo
    BY <1>1, <2>2 DEF PassesAreOwned
  <2>3. (closing' # None /\ sup'.at # "failed") =>
            rt'[closing'].agent \in {"none", "ended", "failed"}
    BY DEF PassesAreOwned, TypeOK
  <2> QED BY <2>1, <2>2, <2>3 DEF PassesAreOwned
<1> QED BY <1>2, <1>3, <1>4, <1>5, <1>6

\* An agent begins a pass.
LEMMA AgentBeginsStep ==
  ASSUME SupervisorInv, NEW r \in Slots, main # "exited",
         UNCHANGED <<registryVars, cacheVars, supVars, serveVars, tool>>,
         NEW d \in Documents, AgentBegins(r, d)
  PROVE  SupervisorInv'
<1> USE Names
<1>1. /\ rt \in [Slots -> Runtime] /\ faults \in 0..MaxFaults
      /\ pass \in [Slots -> [Documents -> Workers \cup {None}]]
  BY DEF SupervisorInv, TypeOK
<1>2. /\ rt[r].agent \in {"first", "round"} /\ d \in rt[r].todo /\ faults' = faults
      /\ \A e \in Documents : pass[r][e] # Agent
  BY DEF AgentBegins, InPass
<1>3. CASE rt[r].open /\ pass' = [pass EXCEPT ![r][d] = Agent] /\ UNCHANGED rt
  <2>1. /\ pass' \in [Slots -> [Documents -> Workers \cup {None}]]
        /\ \A s \in Slots \ {r} : pass'[s] = pass[s]
        /\ \A e \in Documents : pass'[r][e] = IF e = d THEN Agent ELSE pass[r][e]
    BY <1>1, <1>3 DEF Workers
  <2> QED BY <1>1, <1>2, <1>3, <2>1, AgentEffect
<1>4. CASE ~rt[r].open /\ rt' = [rt EXCEPT ![r].agent = "failed"] /\ UNCHANGED pass
  <2>1. rt' \in [Slots -> Runtime]
    BY <1>1, <1>4, RuntimeAgent
  <2>2. /\ rt'[r].open = rt[r].open /\ rt'[r].project = rt[r].project
        /\ \A s \in Slots \ {r} : rt'[s] = rt[s]
    BY <1>1, <1>4 DEF Runtime
  <2> QED BY <1>1, <1>2, <1>4, <2>1, <2>2, AgentEffect
<1> QED BY <1>3, <1>4 DEF AgentBegins


\* An agent ends a pass, or fails when its runtime was closed.
LEMMA AgentEndsStep ==
  ASSUME SupervisorInv, NEW r \in Slots, main # "exited",
         UNCHANGED <<registryVars, cacheVars, supVars, serveVars, tool>>,
         NEW d \in Documents, AgentEnds(r, d)
  PROVE  SupervisorInv'
<1> USE Names
<1>1. /\ rt \in [Slots -> Runtime] /\ faults \in 0..MaxFaults
      /\ pass \in [Slots -> [Documents -> Workers \cup {None}]]
      /\ \A e \in Documents : (pass[r][e] = Agent /\ rt[r].open) =>
            rt[r].agent \in {"first", "round"} /\ e \in rt[r].todo
  BY DEF SupervisorInv, TypeOK, PassesAreOwned
<1>2. /\ faults' = faults
      /\ pass' = [pass EXCEPT ![r][d] = None]
  BY DEF AgentEnds
<1>3. /\ pass' \in [Slots -> [Documents -> Workers \cup {None}]]
      /\ \A s \in Slots \ {r} : pass'[s] = pass[s]
      /\ \A e \in Documents : pass'[r][e] = IF e = d THEN None ELSE pass[r][e]
  BY <1>1, <1>2
<1>4. CASE rt' = [rt EXCEPT ![r].todo = rt[r].todo \ {d}]
  <2>1. rt' \in [Slots -> Runtime]
    <3>1. rt[r].todo \ {d} \in SUBSET Documents
      BY <1>1 DEF Runtime
    <3> QED BY <1>1, <1>4, <3>1, RuntimeTodo
  <2>2. /\ rt'[r].open = rt[r].open /\ rt'[r].project = rt[r].project
        /\ rt'[r].agent = rt[r].agent /\ rt'[r].todo = rt[r].todo \ {d}
        /\ \A s \in Slots \ {r} : rt'[s] = rt[s]
    BY <1>1, <1>4 DEF Runtime
  <2> QED BY <1>1, <1>2, <1>3, <2>1, <2>2, AgentEffect
<1>5. CASE ~rt[r].open /\ rt' = [rt EXCEPT ![r].agent = "failed"]
  <2>1. rt' \in [Slots -> Runtime]
    BY <1>1, <1>5, RuntimeAgent
  <2>2. /\ rt'[r].open = rt[r].open /\ rt'[r].project = rt[r].project
        /\ rt'[r].agent = "failed"
        /\ \A s \in Slots \ {r} : rt'[s] = rt[s]
    BY <1>1, <1>5 DEF Runtime
  <2> QED BY <1>1, <1>2, <1>3, <1>5, <2>1, <2>2, AgentEffect
<1> QED BY <1>4, <1>5 DEF AgentEnds


\* An agent ends when it was told to, after its round.
LEMMA AgentRestsStep ==
  ASSUME SupervisorInv, NEW r \in Slots, main # "exited",
         UNCHANGED <<registryVars, cacheVars, supVars, serveVars, tool>>,
         AgentRests(r)
  PROVE  SupervisorInv'
<1> USE Names
<1>1. /\ rt \in [Slots -> Runtime] /\ faults \in 0..MaxFaults
      /\ pass \in [Slots -> [Documents -> Workers \cup {None}]]
      /\ \A e \in Documents : (pass[r][e] = Agent /\ rt[r].open) => e \in rt[r].todo
  BY DEF SupervisorInv, TypeOK, PassesAreOwned
<1>2. /\ rt[r].agent \in {"first", "round"} /\ rt[r].todo = {} /\ pass' = pass
      /\ \E a \in {"ended", "waiting", "failed"} : rt' = [rt EXCEPT ![r].agent = a]
  BY DEF AgentRests
<1>3. faults' \in 0..MaxFaults
  BY <1>1 DEF AgentRests, CallFails, Fault
<1>4. rt' \in [Slots -> Runtime]
  <2>1. PICK a \in {"ended", "waiting", "failed"} : rt' = [rt EXCEPT ![r].agent = a]
    BY <1>2
  <2>2. a \in {"none", "first", "round", "waiting", "ended", "failed"}
    OBVIOUS
  <2> QED BY <1>1, <2>1, <2>2, RuntimeAgent
<1>5. /\ rt'[r].open = rt[r].open /\ rt'[r].project = rt[r].project
      /\ \A s \in Slots \ {r} : rt'[s] = rt[s]
  BY <1>1, <1>2 DEF Runtime
<1> QED BY <1>1, <1>2, <1>3, <1>4, <1>5, AgentEffect


\* An agent begins a round.
LEMMA AgentPollsStep ==
  ASSUME SupervisorInv, NEW r \in Slots, main # "exited",
         UNCHANGED <<registryVars, cacheVars, supVars, serveVars, tool>>,
         AgentPolls(r)
  PROVE  SupervisorInv'
<1> USE Names
<1>1. /\ rt \in [Slots -> Runtime] /\ faults \in 0..MaxFaults
      /\ pass \in [Slots -> [Documents -> Workers \cup {None}]]
      /\ \A e \in Documents : (pass[r][e] = Agent /\ rt[r].open) =>
            rt[r].agent \in {"first", "round"}
  BY DEF SupervisorInv, TypeOK, PassesAreOwned
<1>2. /\ rt[r].agent = "waiting" /\ pass' = pass
      /\ \/ rt' = [rt EXCEPT ![r].agent = "round", ![r].todo = Documents]
         \/ rt' = [rt EXCEPT ![r].agent = "failed"]
  BY DEF AgentPolls
<1>3. faults' \in 0..MaxFaults
  BY <1>1 DEF AgentPolls, CallFails, Fault
<1>4. rt' \in [Slots -> Runtime]
  <2>1. CASE rt' = [rt EXCEPT ![r].agent = "round", ![r].todo = Documents]
    <3>1. Documents \in SUBSET Documents
      OBVIOUS
    <3> QED BY <1>1, <2>1, <3>1, RuntimeTodo
  <2>2. CASE rt' = [rt EXCEPT ![r].agent = "failed"]
    BY <1>1, <2>2, RuntimeAgent
  <2> QED BY <1>2, <2>1, <2>2
<1>5. /\ rt'[r].open = rt[r].open /\ rt'[r].project = rt[r].project
      /\ \A s \in Slots \ {r} : rt'[s] = rt[s]
  BY <1>1, <1>2 DEF Runtime
<1> QED BY <1>1, <1>2, <1>3, <1>4, <1>5, AgentEffect


\* A call gets the runtime of its project.
LEMMA ToolCallsStep ==
  ASSUME SupervisorInv, NEW t \in Tools, UNCHANGED <<registryVars, supVars, serveVars, faults>>,
         NEW p \in Projects, ToolCalls(t, p)
  PROVE  SupervisorInv'
<1> USE Names DEF SupervisorInv, registryVars, supVars, serveVars
<1>1. /\ server = "serving" /\ tool[t].rt = None /\ UNCHANGED <<closing, pass>>
      /\ \E D \in SUBSET Documents :
            tool' = [tool EXCEPT ![t] = [rt |-> entries'[p], todo |-> D]]
  BY DEF ToolCalls
<1>2. /\ rt' \in [Slots -> Runtime] /\ lock' \in [Projects -> Slots \cup {None, Other}]
      /\ entries' \in [Projects -> Slots \cup {None}] /\ entries'[p] # None
      /\ LocksAreOwned' /\ CacheIsOwned'
      /\ \A q \in Projects : entries'[q] = entries[q] \/ (q = p /\ entries[p] = None)
      /\ \A q \in Projects : entries[q] # None => rt'[entries[q]] = rt[entries[q]]
      /\ entries[p] = None => rt'[entries'[p]].agent = "none"
      /\ \A s \in Slots : rt'[s] = rt[s] \/ (s # closing /\ \A d \in Documents : pass[s][d] = None)
  <2>1. CASE entries[p] # None /\ UNCHANGED <<lock, rt, entries>>
    <3>1. /\ rt \in [Slots -> Runtime] /\ lock \in [Projects -> Slots \cup {None, Other}]
          /\ entries \in [Projects -> Slots \cup {None}]
      BY DEF TypeOK
    <3>2. LocksAreOwned' /\ CacheIsOwned'
      BY <1>1, <2>1 DEF LocksAreOwned, CacheIsOwned
    <3>3. rt' = rt /\ lock' = lock /\ entries' = entries
      BY <2>1
    <3> HIDE DEF SupervisorInv
    <3>4. rt' \in [Slots -> Runtime] /\ lock' \in [Projects -> Slots \cup {None, Other}]
          /\ entries' \in [Projects -> Slots \cup {None}]
      BY <3>1, <3>3
    <3> QED BY <2>1, <3>2, <3>3, <3>4
  <2>2. CASE entries[p] = None /\ Build(p)
    <3>1. \A q \in Projects : entries[q] # None => entries[q] \in Slots
      BY DEF TypeOK
    <3> DEFINE r == entries'[p]
    <3>2. /\ rt' \in [Slots -> Runtime] /\ lock' \in [Projects -> Slots \cup {None, Other}]
          /\ entries' \in [Projects -> Slots \cup {None}]
          /\ r \in Slots /\ rt'[r].agent = "none" /\ closing # r
          /\ \A q \in Projects \ {p} : entries'[q] = entries[q]
          /\ \A q \in Projects : entries[q] # r
          /\ \A s \in Slots \ {r} : rt'[s] = rt[s]
          /\ \A d \in Documents : pass[r][d] = None
          /\ LocksAreOwned' /\ CacheIsOwned'
      BY <1>1, <2>2, BuildKeeps
    <3>3. \A q \in Projects : entries[q] # None => rt'[entries[q]] = rt[entries[q]]
      BY <3>1, <3>2
    <3>4. \A s \in Slots : rt'[s] = rt[s] \/ (s # closing /\ \A d \in Documents : pass[s][d] = None)
      <4> HIDE DEF SupervisorInv
      <4> QED BY <3>2
    <3> HIDE DEF SupervisorInv, r
    <3> QED BY <2>2, <3>2, <3>3, <3>4 DEF r
  <2> QED BY <2>1, <2>2 DEF ToolCalls
<1>3. tool' \in [Tools -> [rt : Slots \cup {None}, todo : SUBSET Documents]]
  BY <1>1, <1>2 DEF TypeOK
<1>4. TypeOK'
  BY <1>1, <1>2, <1>3 DEF TypeOK
<1>5. TasksAreCached'
  BY <1>1, <1>2 DEF TasksAreCached, Tasked, TypeOK
<1>6. AgentsAreTasks'
  BY <1>1, <1>2 DEF AgentsAreTasks, Done
<1>7. LastRound' /\ ServeWaits'
  BY <1>1 DEF LastRound, ServeWaits, Tasked, SupervisorEnded
<1>8. PassesAreOwned'
  <2>1. \A s \in Slots, d \in Documents : pass[s][d] # t
    BY <1>1 DEF PassesAreOwned, TypeOK
  <2>2. \A u \in Tools \ {t} : tool'[u] = tool[u]
    BY <1>1 DEF TypeOK
  <2> QED BY <1>1, <1>2, <2>1, <2>2 DEF PassesAreOwned, TypeOK, Workers
<1> QED BY <1>2, <1>4, <1>5, <1>6, <1>7, <1>8


\* A call begins a pass.
LEMMA ToolBeginsStep ==
  ASSUME SupervisorInv, NEW t \in Tools, UNCHANGED <<registryVars, supVars, serveVars, faults>>, NEW d \in Documents, ToolBegins(t, d)
  PROVE  SupervisorInv'
<1> USE Names DEF SupervisorInv, ToolBegins, InPass, registryVars, cacheVars, supVars, serveVars
<1>1. TypeOK'
  <2>1. pass' \in [Slots -> [Documents -> Workers \cup {None}]]
    BY DEF TypeOK, Workers
  <2>2. tool' \in [Tools -> [rt : Slots \cup {None}, todo : SUBSET Documents]]
    BY DEF TypeOK
  <2> QED BY <2>1, <2>2 DEF TypeOK
<1>2. LocksAreOwned'
  BY DEF TypeOK, LocksAreOwned, Runtime
<1>3. CacheIsOwned'
  BY DEF TypeOK, CacheIsOwned, Runtime, LocksAreOwned, TasksAreCached
<1>4. TasksAreCached'
  BY DEF TypeOK, TasksAreCached, Runtime, Tasked, SupervisorEnded, ServeWaits
<1>5. AgentsAreTasks'
  BY DEF TypeOK, AgentsAreTasks, Runtime, Done, TasksAreCached, CacheIsOwned, Tasked, ServeWaits, SupervisorEnded
<1>6. LastRound'
  BY DEF TypeOK, LastRound, Runtime, Tasked, TasksAreCached
<1>7. ServeWaits'
  BY DEF TypeOK, ServeWaits, Runtime, SupervisorEnded, LastRound
<1>8. PassesAreOwned'
  BY DEF TypeOK, PassesAreOwned, Runtime, AgentsAreTasks, TasksAreCached, LastRound, ServeWaits, SupervisorEnded, Done, Tasked, CacheIsOwned
<1> QED BY <1>1, <1>2, <1>3, <1>4, <1>5, <1>6, <1>7, <1>8

\* A call ends a pass.
LEMMA ToolEndsStep ==
  ASSUME SupervisorInv, NEW t \in Tools, UNCHANGED <<registryVars, supVars, serveVars, faults>>, NEW d \in Documents, ToolEnds(t, d)
  PROVE  SupervisorInv'
<1> USE Names DEF SupervisorInv, ToolEnds, registryVars, cacheVars, supVars, serveVars
<1>1. TypeOK'
  BY DEF TypeOK, Position, Runtime, Workers, Versions
<1>2. LocksAreOwned'
  BY DEF TypeOK, LocksAreOwned, Runtime
<1>3. CacheIsOwned'
  BY DEF TypeOK, CacheIsOwned, Runtime, LocksAreOwned, TasksAreCached
<1>4. TasksAreCached'
  BY DEF TypeOK, TasksAreCached, Runtime, Tasked, SupervisorEnded, ServeWaits
<1>5. AgentsAreTasks'
  BY DEF TypeOK, AgentsAreTasks, Runtime, Done, TasksAreCached, CacheIsOwned, Tasked, ServeWaits, SupervisorEnded
<1>6. LastRound'
  BY DEF TypeOK, LastRound, Runtime, Tasked, TasksAreCached
<1>7. ServeWaits'
  BY DEF TypeOK, ServeWaits, Runtime, SupervisorEnded, LastRound
<1>8. PassesAreOwned'
  BY DEF TypeOK, PassesAreOwned, Runtime, AgentsAreTasks, TasksAreCached, LastRound, ServeWaits, SupervisorEnded, Done, Tasked, CacheIsOwned
<1> QED BY <1>1, <1>2, <1>3, <1>4, <1>5, <1>6, <1>7, <1>8

-----------------------------------------------------------------------------
(* The theorems.                                                            *)

\* Every step of the server, of its people and of other publishers keeps it.
LEMMA NextStep == SupervisorInv /\ [Next]_vars => SupervisorInv'
<1> SUFFICES ASSUME SupervisorInv, [Next]_vars PROVE SupervisorInv'
  OBVIOUS
<1>1. CASE Closing
  BY <1>1, CloseClientsStep, ReleaseLockStep DEF Closing
<1>2. CASE Supervise
  BY <1>2, TopStep, ListFailsStep, StopDisabledStep, CheckStep, DrainStep,
     InvalidateStep, GetStep, GetFailsStep, StartStep, RestStep DEF Supervise
<1>3. CASE Serve
  BY <1>3, MainStopsStep, MainGathersStep, MainClosesStep, MainReturnsStep,
     ServerReturnsStep DEF Serve
<1>4. CASE Signal \/ Configure \/ OtherLocks \/ OtherUnlocks
  BY <1>4, SignalStep, ConfigureStep, OtherLocksStep, OtherUnlocksStep
<1>5. CASE \E r \in Slots : AgentStep(r)
  <2>1. PICK r \in Slots : AgentStep(r)
    BY <1>5
  <2>2. /\ main # "exited" /\ UNCHANGED <<registryVars, cacheVars, supVars, serveVars, tool>>
        /\ \/ AgentRests(r) \/ AgentPolls(r)
           \/ \E d \in Documents : AgentEnds(r, d) \/ AgentBegins(r, d)
    BY <2>1 DEF AgentStep, AgentGoesOn
  <2> QED BY <2>2, AgentRestsStep, AgentPollsStep, AgentEndsStep, AgentBeginsStep
<1>6. CASE \E t \in Tools : ToolStep(t)
  <2>1. PICK t \in Tools : ToolStep(t)
    BY <1>6
  <2>2. /\ UNCHANGED <<registryVars, supVars, serveVars, faults>>
        /\ \/ \E p \in Projects : ToolCalls(t, p)
           \/ \E d \in Documents : ToolBegins(t, d) \/ ToolEnds(t, d)
    BY <2>1 DEF ToolStep
  <2> QED BY <2>2, ToolCallsStep, ToolBeginsStep, ToolEndsStep
<1>7. CASE UNCHANGED vars
  BY <1>7
  DEF vars, registryVars, cacheVars, supVars, serveVars, SupervisorInv, TypeOK,
      LocksAreOwned, CacheIsOwned, TasksAreCached, AgentsAreTasks, LastRound,
      ServeWaits, PassesAreOwned, Tasked, Done, SupervisorEnded
<1> QED BY <1>1, <1>2, <1>3, <1>4, <1>5, <1>6, <1>7 DEF Next, Exited

\* In every reachable state the tasks, the cache, the lock files and the passes
\* agree on who has which runtime.
THEOREM SupervisorInvHolds == Spec => []SupervisorInv
<1>1. Init => SupervisorInv
  BY InitSupervisorInv
<1>2. SupervisorInv /\ [Next]_vars => SupervisorInv'
  BY NextStep
<1> QED BY <1>1, <1>2, PTL DEF Spec

\* Every variable keeps its type.
THEOREM SupervisorTypeCorrect == Spec => []TypeOK
<1>1. SupervisorInv => TypeOK
  BY DEF SupervisorInv
<1> QED BY <1>1, SupervisorInvHolds, PTL

\* The cache never hands out a runtime that is closed or without the lock file.
THEOREM CachedOpen == Spec => []CachedIsOpen
<1>1. SupervisorInv => CachedIsOpen
  BY DEF SupervisorInv, LocksAreOwned, CacheIsOwned, TypeOK, CachedIsOpen
<1> QED BY <1>1, SupervisorInvHolds, PTL

\* A state database has one publisher, in this process or in another.
THEOREM SinglePublisher == Spec => []OnePublisher
<1>1. SupervisorInv => OnePublisher
  <2> SUFFICES ASSUME SupervisorInv, NEW r \in Slots, rt[r].open
               PROVE  /\ lock[rt[r].project] # Other
                      /\ \A s \in Slots \ {r} : rt[s].open => rt[s].project # rt[r].project
    BY DEF OnePublisher
  <2>1. \A s \in Slots : rt[s].open => lock[rt[s].project] = s
    BY DEF SupervisorInv, LocksAreOwned
  <2>2. r # Other
    BY Names
  <2> QED BY <2>1, <2>2
<1> QED BY <1>1, SupervisorInvHolds, PTL

\* While the server answers, ready means that every enabled project is served.
THEOREM ReadyIsServed == Spec => []ReadyMeansServed
<1>1. SupervisorInv => ReadyMeansServed
  <2> SUFFICES ASSUME SupervisorInv, Ready, NEW p \in enabled
               PROVE  entries[p] = tasks[p] /\ rt[entries[p]].open
    BY DEF ReadyMeansServed
  <2>1. p \in Projects /\ tasks[p] # None
    BY DEF Ready, SupervisorInv, TypeOK
  <2>2. main \notin {"closing", "exited"}
    BY DEF Ready, SupervisorInv, ServeWaits
  <2>3. entries[p] = tasks[p]
    BY <2>1, <2>2 DEF SupervisorInv, TasksAreCached
  <2> QED BY <2>1, <2>3 DEF SupervisorInv, CacheIsOwned
<1> QED BY <1>1, SupervisorInvHolds, PTL

\* Only Runtime.close closes a runtime, and it closes the one invalidate took.
LEMMA OnlyCloseCloses ==
  ASSUME SupervisorInv, [Next]_vars, NEW r \in Slots, Closes(r)
  PROVE  CloseClients /\ r = closing
<1> SUFFICES ASSUME ~CloseClients PROVE rt'[r].open
  <2>1. (CloseClients /\ rt \in [Slots -> Runtime]) => \A s \in Slots \ {closing} : rt'[s] = rt[s]
    BY DEF CloseClients
  <2> QED BY <2>1 DEF SupervisorInv, TypeOK, Closes
<1>1. rt \in [Slots -> Runtime] /\ rt[r].open
  BY DEF Closes, SupervisorInv, TypeOK
<1> HIDE DEF SupervisorInv
<1>2. ASSUME UNCHANGED rt PROVE rt'[r].open
  BY <1>1, <1>2
<1>3. ASSUME NEW s, rt' = [rt EXCEPT ![s].stopped = TRUE] PROVE rt'[r].open
  BY <1>1, <1>3 DEF Runtime
<1>4. ASSUME NEW p \in Projects, Build(p) PROVE rt'[r].open
  BY <1>1, <1>4 DEF Build, Free
<1>5. CASE Closing
  BY <1>2, <1>5 DEF Closing, ReleaseLock
<1>6. CASE Supervise
  <2>1. CASE StopDisabled
    BY <1>3, <2>1 DEF StopDisabled, Stopping
  <2>2. CASE Check
    BY <1>2, <1>3, <2>2 DEF Check, Stopping
  <2>3. CASE Invalidate
    BY <1>3, <2>3 DEF Invalidate, Forget
  <2>4. CASE Get
    <3>1. sup.project \in Projects
      BY <2>4 DEF Get, SupervisorInv, TasksAreCached
    <3> QED BY <1>2, <1>4, <2>4, <3>1 DEF Get
  <2>5. CASE Start
    <3>1. PICK s : rt' = [rt EXCEPT ![s].agent = "first", ![s].todo = Documents]
      BY <2>5 DEF Start
    <3> QED BY <1>1, <3>1 DEF Runtime
  <2>6. CASE Top \/ ListFails \/ Drain \/ GetFails \/ Rest
    BY <1>2, <2>6 DEF Top, ListFails, Drain, GetFails, Rest
  <2> QED BY <1>6, <2>1, <2>2, <2>3, <2>4, <2>5, <2>6 DEF Supervise
<1>7. CASE Serve
  BY <1>2, <1>3, <1>7
  DEF Serve, MainStops, MainGathers, MainCloses, MainReturns, ServerReturns, Forget
<1>8. CASE Signal \/ Configure \/ OtherLocks \/ OtherUnlocks
  BY <1>2, <1>8 DEF Signal, Configure, OtherLocks, OtherUnlocks
<1>9. ASSUME NEW s \in Slots, AgentStep(s) PROVE rt'[r].open
  <2>1. ASSUME NEW a, rt' = [rt EXCEPT ![s].agent = a] PROVE rt'[r].open
    BY <1>1, <2>1 DEF Runtime
  <2>2. ASSUME NEW T, rt' = [rt EXCEPT ![s].todo = T] PROVE rt'[r].open
    BY <1>1, <2>2 DEF Runtime
  <2>3. ASSUME NEW a, NEW T, rt' = [rt EXCEPT ![s].agent = a, ![s].todo = T]
        PROVE  rt'[r].open
    BY <1>1, <2>3 DEF Runtime
  <2>4. CASE AgentRests(s)
    BY <2>1, <2>4 DEF AgentRests
  <2>5. CASE AgentPolls(s)
    BY <2>1, <2>3, <2>5 DEF AgentPolls
  <2>6. ASSUME NEW d \in Documents, AgentEnds(s, d) \/ AgentBegins(s, d)
        PROVE  rt'[r].open
    BY <1>2, <2>1, <2>2, <2>6 DEF AgentEnds, AgentBegins
  <2> QED BY <1>9, <2>4, <2>5, <2>6 DEF AgentStep, AgentGoesOn
<1>10. ASSUME NEW t \in Tools, ToolStep(t) PROVE rt'[r].open
  BY <1>2, <1>4, <1>10 DEF ToolStep, ToolCalls, ToolBegins, ToolEnds
<1>11. CASE UNCHANGED vars
  BY <1>2, <1>11 DEF vars
<1> QED BY <1>5, <1>6, <1>7, <1>8, <1>9, <1>10, <1>11 DEF Next, Exited

\* A runtime the supervisor closes has no agent at work.
LEMMA DrainedBefore ==
  ASSUME SupervisorInv, [Next]_vars, NEW r \in Slots, Closes(r), sup.at # "failed"
  PROVE  rt[r].agent \in {"none", "ended", "failed"}
<1>1. CloseClients /\ r = closing
  BY OnlyCloseCloses
<1> QED BY <1>1, Names DEF SupervisorInv, PassesAreOwned

\* A reload or a stop closes a runtime only after its agent has ended.
THEOREM AgentDrained == Spec => AgentIsDrained
<1>1. SupervisorInv /\ [Next]_vars =>
          [\A r \in Slots : (Closes(r) /\ sup.at # "failed") =>
               rt[r].agent \notin {"first", "round", "waiting"}]_vars
  BY DrainedBefore
<1> QED BY <1>1, SupervisorInvHolds, PTL DEF Spec, AgentIsDrained

\* An orderly shutdown closes a runtime only when no pass is on it.
THEOREM ShutdownIsDrained == Spec => ShutdownDrains
<1>1. ASSUME SupervisorInv, [Next]_vars, NEW r \in Slots, Closes(r), stop_event,
             sup.at # "failed"
      PROVE  Idle(r)
  <2>1. rt[r].agent \in {"none", "ended", "failed"} /\ rt[r].open
    BY <1>1, DrainedBefore DEF Closes
  <2>2. \A t \in Tools : tool[t].rt = None
    BY <1>1 DEF SupervisorInv, ServeWaits
  <2> SUFFICES ASSUME NEW d \in Documents PROVE pass[r][d] = None
    BY DEF Idle
  <2>3. pass[r][d] \in Tools \cup {Agent, None}
    BY <1>1 DEF SupervisorInv, TypeOK, Workers
  <2>4. pass[r][d] \notin Tools
    BY <1>1, <2>2, Names DEF SupervisorInv, PassesAreOwned
  <2>5. pass[r][d] # Agent
    BY <1>1, <2>1 DEF SupervisorInv, PassesAreOwned
  <2> QED BY <2>3, <2>4, <2>5
<1>2. SupervisorInv /\ [Next]_vars =>
          [\A r \in Slots : (Closes(r) /\ stop_event /\ sup.at # "failed") => Idle(r)]_vars
  BY <1>1
<1> QED BY <1>2, SupervisorInvHolds, PTL DEF Spec, ShutdownDrains
=============================================================================
