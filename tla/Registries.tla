----------------------------- MODULE Registries -----------------------------
(***************************************************************************)
(* Who may do what on the MCP server: the users file, a project's           *)
(* definition and the audit log, as the server's tools and the commands of  *)
(* `doccolab-mcp` change them.                                              *)
(*                                                                         *)
(* The server runs its tools one at a time, on its event loop, but a        *)
(* request was authenticated earlier; a command is a process of its own,    *)
(* started one at a time by the operator, and the registries' locks do not  *)
(* reach from one process to the other.  A token is the number it was       *)
(* issued under, 0 for one that was there before.                           *)
(***************************************************************************)
EXTENDS AuditLog

CONSTANTS
    None,        \* Python's None
    Missing,     \* a file that is not there
    Users, Folders,
    MaxCalls,    \* bound: tool calls begun
    MaxCommands, \* bound: commands and servers started
    MaxKills     \* bound: processes killed

ASSUME LimitsAssumption == MaxCalls \in Nat /\ MaxCommands \in Nat /\ MaxKills \in Nat

Role == {"viewer", "editor", "owner"}
ROLE_LEVEL == [viewer |-> 10, editor |-> 20, owner |-> 30]

UserRecord == [role : Role, token : Nat, enabled : BOOLEAN]
UsersFile == [Users -> UserRecord \cup {None}]
NoUsers == [u \in Users |-> None]

\* "*" allows every tool.
Tools == {"use", "configure", "expose", "revoke"}
ProjectDefinition ==
    [enabled : BOOLEAN, members : [Users -> Role \cup {None}],
     exposed_folders : SUBSET Folders, allowed_tools : SUBSET (Tools \cup {"*"})]

UserTools == {"add", "remove", "set_role"}
Jobs == [op : UserTools \cup {"rotate"}, who : Users, role : Role]
        \cup [op : {"expose", "revoke"}, folder : Folders]
        \cup [op : {"use"}, role : {"viewer", "editor"}]
        \cup [op : {"configure"}, as : ProjectDefinition]
        \cup [op : {"list"}]
OnUsers(job) == job.op \in UserTools \cup {"rotate"}

ASSUME MarksAssumption ==
    /\ None \notin UserRecord \cup Jobs
    /\ Missing \notin UsersFile \cup ProjectDefinition

Processes == {"server", "command"}
Other(p) == IF p = "server" THEN "command" ELSE "server"

VARIABLES
    users,     \* users.json
    project,   \* the file of the project
    log,       \* the audit log's files
    recorded,  \* and how many records were ever written
    process,   \* what each process is at
    waiting,   \* requests past authentication: the user and the role read then
    issued,    \* how many tokens were minted
    meant,     \* history: the users and the project as each change by itself has them
    raced,     \* history: a process replaced users.json while another was about to
    void,      \* history: tokens that were rotated, and those of users removed
    calls, commands, kills

files == <<users, project>>
audit == <<log, recorded>>
histories == <<meant, raced, void>>
bounds == <<calls, commands, kills>>
registryVars == <<files, audit, process, waiting, issued, histories, bounds>>

\* text: what the process is about to put in place of the file, None before it has it.
Stopped == [at |-> "stopped", job |-> None, text |-> None]

\* What may be there before: files an operator wrote by hand.
InitialUsers ==
    {Missing} \cup [Users -> [role : {"owner"}, token : {0}, enabled : BOOLEAN]]

\* The definitions clients ask for, with every user an editor: one as good as any, one
\* that locks its owners out and one that is disabled.
Definitions ==
    LET Definition(enabled, allowed_tools) ==
            [enabled |-> enabled, members |-> [u \in Users |-> "editor"],
             exposed_folders |-> {}, allowed_tools |-> allowed_tools]
    IN  {Definition(TRUE, {"*"}), Definition(TRUE, {"use"}), Definition(FALSE, {"*"})}

InitialProjects ==
    {Missing, [enabled |-> TRUE, members |-> [u \in Users |-> None],
               exposed_folders |-> {}, allowed_tools |-> {"*"}]}

Listed(file) == IF file = Missing THEN NoUsers ELSE file

RegistriesInit ==
    /\ users \in InitialUsers
    /\ project \in InitialProjects
    /\ log = NoLog /\ recorded = 0
    /\ process = [p \in Processes |-> Stopped]
    /\ waiting = {}
    /\ issued = 0
    /\ meant = [users |-> Listed(users), project |-> project]
    /\ raced = FALSE
    /\ void = {}
    /\ calls = 0 /\ commands = 0 /\ kills = 0

EnabledOwners(file) ==
    {u \in Users : file[u] # None /\ file[u].enabled /\ file[u].role = "owner"}
Serving == process["server"].at \notin {"stopped", "opening", "creating", "checking"}

Goes(p, at) == process' = [process EXCEPT ![p].at = at]
Past(p, at) == process' = [process EXCEPT ![p] = [Stopped EXCEPT !.at = at]]

-----------------------------------------------------------------------------
(* Starting: load_server_config, then UserRegistry writes an empty file     *)
(* where it found none.                                                     *)

Start(p, job) ==
    /\ process[p].at = "stopped"
    /\ commands < MaxCommands
    /\ commands' = commands + 1
    /\ process' = [process EXCEPT ![p] = [at |-> "opening", job |-> job, text |-> None]]
    /\ UNCHANGED <<files, audit, waiting, issued, histories, calls, kills>>

Serve == Start("server", None)

\* init-owner adds a user as owner.  validate changes nothing.
Command ==
    \E u \in Users, op \in {"add", "rotate"} :
        Start("command", [op |-> op, who |-> u, role |-> "owner"])

Opened(p) == IF p = "server" THEN "checking" ELSE "loading"

Open(p) ==
    /\ process[p].at = "opening"
    /\ Goes(p, IF users = Missing THEN "creating" ELSE Opened(p))
    /\ UNCHANGED <<files, audit, waiting, issued, histories, bounds>>

CreateUsers(p) ==
    /\ process[p].at = "creating"
    /\ users' = NoUsers
    /\ raced' = (raced \/ users # Missing)
    /\ Goes(p, Opened(p))
    /\ UNCHANGED <<project, audit, waiting, issued, meant, void, bounds>>

\* The server is not to run without an owner.
CheckOwner ==
    /\ process["server"].at = "checking"
    /\ IF EnabledOwners(users) # {}
       THEN Goes("server", "idle")
       ELSE process' = [process EXCEPT !["server"] = Stopped]
    /\ UNCHANGED <<files, audit, waiting, issued, histories, bounds>>

-----------------------------------------------------------------------------
(* A tool call: the middleware, authorisation, the operation, the outcome.  *)

Record == log' = Recorded(log, recorded + 1) /\ recorded' = recorded + 1

\* The role is read here and not again.  One request waits while another is served.
Authenticate(u) ==
    /\ Serving
    /\ waiting = {}
    /\ users[u] # None /\ users[u].enabled
    /\ waiting' = {[user |-> u, role |-> users[u].role]}
    /\ UNCHANGED <<files, audit, process, issued, histories, bounds>>

MinRole(r, s) == IF ROLE_LEVEL[r] <= ROLE_LEVEL[s] THEN r ELSE s

role_for(caller) ==
    IF caller.role = "owner" THEN "owner"
    ELSE IF project.members[caller.user] = None THEN None
    ELSE MinRole(caller.role, project.members[caller.user])

\* Whether the project is enabled is not looked at.
AuthorizedSlip(caller, tool, minimum) ==
    /\ project # Missing
    /\ role_for(caller) # None
    /\ ROLE_LEVEL[role_for(caller)] >= ROLE_LEVEL[minimum]
    /\ project.allowed_tools \cap {"*", tool} # {}

Authorized(caller, tool, minimum) ==
    /\ project # Missing /\ project.enabled
    /\ role_for(caller) # None
    /\ ROLE_LEVEL[role_for(caller)] >= ROLE_LEVEL[minimum]
    /\ project.allowed_tools \cap {"*", tool} # {}

Permitted(caller, job) ==
    CASE job.op \in UserTools -> caller.role = "owner"
      [] job.op \in {"expose", "revoke"} -> Authorized(caller, job.op, "owner")
      [] job.op = "configure" ->
            IF project = Missing THEN caller.role = "owner"
            ELSE Authorized(caller, "configure", "owner")
      [] job.op = "use" -> Authorized(caller, "use", job.role)
      [] OTHER -> TRUE

\* set_project_config alone records its authorisation after the change, and a denial
\* of it only as a failure.  The tools that leave the registries alone run to their
\* outcome, whatever it is; so does a denied call.
Begin(caller, job) ==
    /\ process["server"].at = "idle"
    /\ calls < MaxCalls
    /\ calls' = calls + 1
    /\ waiting' = waiting \ {caller}
    /\ IF ~Permitted(caller, job) \/ job.op \in {"use", "list"}
       THEN Past("server", "closing")
       ELSE process' = [process EXCEPT !["server"] =
               IF job.op = "configure"
               THEN [at |-> "writing", job |-> job, text |-> job.as]
               ELSE [at |-> "loading", job |-> job, text |-> None]]
    /\ IF job.op = "configure" THEN UNCHANGED audit ELSE Record
    /\ UNCHANGED <<files, issued, histories, commands, kills>>

ServedJobs ==
    {[op |-> op, who |-> u, role |-> "viewer"] : op \in UserTools, u \in Users}
    \cup {[op |-> "set_role", who |-> u, role |-> "owner"] : u \in Users}
    \cup {[op |-> op, folder |-> f] : op \in {"expose", "revoke"}, f \in Folders}
    \cup {[op |-> "configure", as |-> d] : d \in Definitions}
    \cup {[op |-> "use", role |-> "editor"], [op |-> "list"]}

Call == \E caller \in waiting, job \in ServedJobs : Begin(caller, job)

-----------------------------------------------------------------------------
(* UserRegistry's operations, in a tool or a command, and ProjectRegistry's. *)

\* Nobody but u would be left to own the server.
LastOwner(file, u) == file[u].role = "owner" /\ EnabledOwners(file) \ {u} = {}

\* The last owner may be demoted.
RefusedSlip(job, file) ==
    CASE job.op = "add" -> file[job.who] # None
      [] job.op = "set_role" -> file[job.who] = None
      [] job.op = "remove" -> file[job.who] = None \/ LastOwner(file, job.who)
      [] OTHER -> file[job.who] = None

Refused(job, file) ==
    CASE job.op = "add" -> file[job.who] # None
      [] job.op = "set_role" -> \/ file[job.who] = None
                                \/ job.role # "owner" /\ LastOwner(file, job.who)
      [] job.op = "remove" -> file[job.who] = None \/ LastOwner(file, job.who)
      [] OTHER -> file[job.who] = None

\* A changed role is written as a new record.
ChangedSlip(job, file, token) ==
    [file EXCEPT ![job.who] =
        CASE job.op = "add" -> [role |-> job.role, token |-> token, enabled |-> TRUE]
          [] job.op = "set_role" -> [role |-> job.role, token |-> @.token, enabled |-> TRUE]
          [] job.op = "rotate" -> [@ EXCEPT !.token = token]
          [] OTHER -> None]

Changed(job, file, token) ==
    [file EXCEPT ![job.who] =
        CASE job.op = "add" -> [role |-> job.role, token |-> token, enabled |-> TRUE]
          [] job.op = "set_role" -> [@ EXCEPT !.role = job.role]
          [] job.op = "rotate" -> [@ EXCEPT !.token = token]
          [] OTHER -> None]

\* An operation raises: the call is closed as failed, the command ends.
Fails(p) == Past(p, IF p = "server" THEN "closing" ELSE "stopped")

LoadUsers(p) ==
    /\ process[p].at = "loading" /\ OnUsers(process[p].job)
    /\ LET job == process[p].job
       IN  IF Refused(job, users)
           THEN Fails(p) /\ UNCHANGED issued
           ELSE /\ issued' = IF job.op \in {"add", "rotate"} THEN issued + 1 ELSE issued
                /\ process' = [process EXCEPT ![p].at = "writing",
                                              ![p].text = Changed(job, users, issued')]
    /\ UNCHANGED <<files, audit, waiting, histories, bounds>>

\* expose_folder and revoke_folder read the project again; a folder that is not there
\* cannot be exposed.
LoadProject ==
    /\ process["server"].at = "loading" /\ ~OnUsers(process["server"].job)
    /\ LET job == process["server"].job
       IN  \/ process' = [process EXCEPT
                  !["server"].at = "writing",
                  !["server"].text = [project EXCEPT !.exposed_folders =
                      IF job.op = "expose" THEN @ \cup {job.folder}
                                           ELSE @ \ {job.folder}]]
           \/ job.op = "expose" /\ Fails("server")
    /\ UNCHANGED <<files, audit, waiting, issued, histories, bounds>>

\* What the change makes of the user; a new token is the number it was issued under.
MeantUser(job, text) ==
    LET known == meant.users[job.who]
    IN  IF job.op = "remove" THEN None
        ELSE IF job.op = "add" \/ known = None THEN text[job.who]
        ELSE IF job.op = "set_role" THEN [known EXCEPT !.role = job.role]
        ELSE [known EXCEPT !.token = text[job.who].token]

\* The new text is written to a file of its own, which is renamed over the old one.
WriteUsers(p) ==
    /\ process[p].at = "writing" /\ OnUsers(process[p].job)
    /\ users' = process[p].text
    /\ LET job == process[p].job
           known == meant.users[job.who]
       IN  /\ meant' = [meant EXCEPT !.users[job.who] = MeantUser(job, users')]
           /\ void' = IF job.op \in {"rotate", "remove"} /\ known # None
                      THEN void \cup {[user |-> job.who, token |-> known.token]}
                      ELSE void
    /\ raced' = \/ raced
                \/ process[Other(p)].at = "writing" /\ OnUsers(process[Other(p)].job)
    /\ Past(p, "closing")
    /\ UNCHANGED <<project, audit, waiting, issued, bounds>>

MeantProject(job, text) ==
    CASE job.op = "expose" ->
            [meant.project EXCEPT !.exposed_folders = @ \cup {job.folder}]
      [] job.op = "revoke" ->
            [meant.project EXCEPT !.exposed_folders = @ \ {job.folder}]
      [] OTHER -> text

WriteProject ==
    /\ process["server"].at = "writing" /\ ~OnUsers(process["server"].job)
    /\ project' = process["server"].text
    /\ LET job == process["server"].job
       IN  /\ meant' = [meant EXCEPT !.project = MeantProject(job, project')]
           /\ Past("server", IF job.op = "configure" THEN "noting" ELSE "closing")
    /\ UNCHANGED <<users, audit, waiting, issued, raced, void, bounds>>

\* set_project_config records that it was authorised.
Note ==
    /\ process["server"].at = "noting"
    /\ Record
    /\ Goes("server", "closing")
    /\ UNCHANGED <<files, waiting, issued, histories, bounds>>

\* The call's outcome is recorded and answered.
Close ==
    /\ process["server"].at = "closing"
    /\ Record
    /\ Goes("server", "idle")
    /\ UNCHANGED <<files, waiting, issued, histories, bounds>>

\* The command prints the new token and ends.
Printed ==
    /\ process["command"].at = "closing"
    /\ Goes("command", "stopped")
    /\ UNCHANGED <<files, audit, waiting, issued, histories, bounds>>

-----------------------------------------------------------------------------
(* Ends.                                                                    *)

Shutdown ==
    /\ process["server"].at = "idle" /\ waiting = {}
    /\ process' = [process EXCEPT !["server"] = Stopped]
    /\ UNCHANGED <<files, audit, waiting, issued, histories, bounds>>

\* A killed server may have been recording the next record.
Kill(p) ==
    /\ process[p].at # "stopped"
    /\ kills < MaxKills
    /\ kills' = kills + 1
    /\ process' = [process EXCEPT ![p] = Stopped]
    /\ IF p = "server"
       THEN /\ waiting' = {}
            /\ \/ log' = log
               \/ /\ \/ process[p].at \in {"noting", "closing"}
                     \/ process[p].at = "idle" /\ waiting # {}
                  /\ log' \in Interrupted(log)
       ELSE UNCHANGED <<waiting, log>>
    /\ UNCHANGED <<files, recorded, issued, histories, calls, commands>>

RegistriesNext ==
    \/ Serve \/ Command
    \/ \E p \in Processes : Open(p) \/ CreateUsers(p) \/ LoadUsers(p) \/ WriteUsers(p) \/ Kill(p)
    \/ CheckOwner
    \/ \E u \in Users : Authenticate(u)
    \/ Call \/ LoadProject \/ WriteProject \/ Note \/ Close
    \/ Printed \/ Shutdown

=============================================================================
