------------------------- MODULE InstallationSafety -------------------------
(***************************************************************************)
(* What must hold of Installation.                                          *)
(***************************************************************************)
EXTENDS Installation

Stages == {"stopped", "opening", "creating", "checking", "idle", "loading", "writing",
           "noting", "closing"}
Step == [at : Stages, job : Jobs \cup {None}, text : UsersFile \cup ProjectDefinition \cup {None}]
Keyring == [Names -> Value]

Wizard ==
    [at : {"none", "asking", "writing", "storing", "restoring", "cleaning", "failed", "done"},
     created : 0..Len(Order), secrets : SUBSET Names, updated : SUBSET Names,
     previous : Keyring \cup {Absent}, first : Keyring \cup {Absent}, stuck : BOOLEAN]

RegistriesType ==
    /\ users \in UsersFile \cup {Missing}
    /\ project \in ProjectDefinition \cup {Missing}
    /\ log \in [Files -> SUBSET Nat] /\ recorded \in Nat
    /\ process \in [Processes -> Step]
    /\ waiting \subseteq [user : Users, role : Role]
    /\ issued \in Nat
    /\ meant \in [users : UsersFile, project : ProjectDefinition \cup {Missing}]
    /\ raced \in BOOLEAN
    /\ void \subseteq [user : Users, token : Nat]
    /\ calls \in 0..MaxCalls /\ commands \in 0..MaxCommands /\ kills \in 0..MaxKills

SetupType ==
    /\ disk \in [Targets -> Value]
    /\ keyring \in Keyring
    /\ setup \in Wizard
    /\ setups \in 0..MaxSetups /\ changes \in 0..MaxSetups

\* The state is of the types its code gives it.
TypeOK == RegistriesType /\ SetupType

Kept == UNION {log[i] : i \in Files}

\* However often the log was rotated, and wherever in a rotation or a record a process
\* was killed, what the files hold is the last so many records, whole, and in order
\* from the oldest backup to the log.
AuditIsContiguous ==
    /\ \A i, j \in Files : i < j => \A m \in log[i], n \in log[j] : n < m
    /\ \A n \in Kept : n..recorded \subseteq Kept
    /\ recorded = 0 \/ recorded \in Kept

\* As long as a server runs there is an enabled owner, and as long as the operator
\* leaves a finished setup alone: though callers act on a role they no longer have,
\* though a command replaces the file with what it made of an older one, and whoever
\* is killed meanwhile.
LastOwnerStays == Serving \/ setup.at = "done" => EnabledOwners(Listed(users)) # {}

\* A change of the users or of the project is lost, or done over another one than the
\* last, only where two processes were about to replace the users file at once; and
\* what a change does not mention it leaves as it was.
NothingIsLost == ~raced => meant = [users |-> Listed(users), project |-> project]

\* A project's definition that says it is disabled is changed by no tool, not even by
\* set_project_config of a global owner: the operator has to edit the file.
DisabledIsFrozen ==
    [][project # Missing /\ ~project.enabled /\ changes' = changes => project' = project]_vars

\* A setup that an error ended leaves no file of its own and the keyring as it found
\* it, unless an error was suppressed on the way back; one that succeeds has written
\* every file and stored every secret it was given.
SetupAllOrNothing ==
    /\ setup.at = "failed" /\ ~setup.stuck =>
           /\ \A t \in Targets : disk[t] # setups
           /\ keyring = setup.first
    /\ setup.at = "done" =>
           /\ \A t \in Targets : disk[t] = setups
           /\ \A n \in Names :
                  keyring[n] = IF n \in setup.updated THEN setups ELSE setup.first[n]

\* Setup changes and removes no file it did not write itself in the same run: what an
\* operator wrote, what a server created and what a killed setup left all stay.
NeverOverwrites ==
    [][changes' = changes =>
          \A t \in Targets :
              \/ disk'[t] = disk[t]
              \/ disk[t] = Absent
              \/ disk[t] = setups /\ setup.at = "cleaning"]_vars

\* `rotate-token` prints that the previous token is invalid (mcp_server/main.py:87),
\* and so is that of a user who was removed.
RotatedIsInvalid ==
    \A u \in Users :
        Listed(users)[u] # None => [user |-> u, token |-> users[u].token] \notin void

-----------------------------------------------------------------------------
(* What makes them hold, step by step.                                      *)

HasOwner(file) == EnabledOwners(file) # {}

\* A registry file is on the disk if and only if there is one.
LinksInv ==
    /\ disk["users.json"] = Absent <=> users = Missing
    /\ disk["project.json"] = Absent <=> project = Missing

\* A process has a job, and a file to do it on, where it needs them.
PlacesInv ==
    /\ process["command"].at \notin {"checking", "idle", "noting"}
    /\ process["command"].at \in {"opening", "creating", "loading", "writing"} =>
           process["command"].job # None /\ OnUsers(process["command"].job)
    /\ process["server"].at \in {"loading", "writing"} => process["server"].job # None
    /\ \A p \in Processes :
        /\ process[p].at \notin {"stopped", "opening", "creating"} => users # Missing
        /\ process[p].at = "writing" /\ OnUsers(process[p].job) =>
            /\ process[p].text \in UsersFile
            /\ process[p].job.op = "rotate" => process[p].text[process[p].job.who] # None
        /\ process[p].at = "writing" /\ ~OnUsers(process[p].job) =>
               process[p].text \in ProjectDefinition

\* An empty users file is created only where nobody owned one, and what is about to
\* replace a file with an owner has an owner as well.
OwnersInv ==
    /\ LastOwnerStays
    /\ process["command"].at = "creating" => ~Serving /\ ~HasOwner(Listed(users))
    /\ setup.at = "done" => \A p \in Processes : process[p].at # "creating"
    /\ \A p \in Processes :
        process[p].at = "writing" /\ OnUsers(process[p].job) /\ HasOwner(Listed(users)) =>
            HasOwner(process[p].text)

\* A project that a tool is about to change is there and enabled, but for the one that
\* set_project_config creates.
ProjectInv ==
    process["server"].at \in {"loading", "writing"} /\ ~OnUsers(process["server"].job) =>
        /\ project # Missing => project.enabled
        /\ project # Missing \/ process["server"].job.op = "configure"
        /\ process["server"].at = "loading" => process["server"].job.op \in {"expose", "revoke"}

\* Unless two processes raced, what is about to replace a file is the file with the
\* job done on it.
MeantInv ==
    /\ meant.project = project
    /\ ~raced => meant.users = Listed(users)
    /\ \A p \in Processes : ~raced /\ process[p].at = "writing" /\ OnUsers(process[p].job) =>
        process[p].text = [users EXCEPT ![process[p].job.who] =
                               MeantUser(process[p].job, process[p].text)]
    /\ process["server"].at = "writing" /\ ~OnUsers(process["server"].job) =>
        process["server"].text = MeantProject(process["server"].job, process["server"].text)

\* A setup has written its targets up to the one it is at and none of the others, and
\* knows the keyring as it was but for what it stored.
SetupInv ==
    /\ setup.at = "asking" =>
        setups + changes < MaxSetups /\ setup = [NoSetup EXCEPT !.at = "asking"]
    /\ setup.at \in {"writing", "storing", "restoring", "cleaning"} =>
        /\ setups # 0 /\ setup.first \in Keyring
        /\ \A i \in DOMAIN Order : disk[Order[i]] = IF i <= setup.created THEN setups ELSE Absent
    /\ setup.at \in {"storing", "restoring"} => setup.created = 5 /\ setup.previous = setup.first
    /\ setup.at = "writing" => setup.updated = {}
    /\ setup.at \in {"writing", "storing"} => ~setup.stuck
    /\ setup.at \in {"writing", "storing", "restoring"} /\ ~setup.stuck =>
        keyring = [n \in Names |-> IF n \in setup.updated THEN setups ELSE setup.first[n]]
    /\ setup.at = "cleaning" /\ ~setup.stuck => keyring = setup.first
    /\ SetupAllOrNothing

\* Nothing else runs during a setup, and the files it has generated are good to run with.
GeneratedInv ==
    /\ ~AtRest => Quiet
    /\ setup.at \in {"writing", "storing", "restoring", "cleaning"} =>
        /\ setup.created >= 4 => HasOwner(Listed(users))
        /\ setup.created = 5 => project # Missing /\ project.enabled

AuditInv == AuditIsContiguous /\ \A n \in Kept : n <= recorded

InstallationInv ==
    /\ TypeOK /\ LinksInv /\ AuditInv
    /\ PlacesInv /\ OwnersInv /\ ProjectInv /\ MeantInv
    /\ SetupInv /\ GeneratedInv

=============================================================================
