---------------------------- MODULE Installation ----------------------------
(***************************************************************************)
(* One output directory from guided setup to a server in use: the wizard    *)
(* writes the first users file and project definition, `doccolab-mcp`       *)
(* creates an empty users file where there is none, and each of them finds  *)
(* what the other left.                                                    *)
(***************************************************************************)
EXTENDS Registries, Setup

vars == <<registryVars, setupVars>>

\* Without mcp-config.json neither a server nor a command starts.
Configured == disk["mcp-config.json"] # Absent

Init ==
    /\ RegistriesInit
    /\ SetupInit
    /\ disk["users.json"] = Absent <=> users = Missing
    /\ disk["project.json"] = Absent <=> project = Missing

\* The operator runs setup and what needs its files one after the other.
MayStart == Configured /\ AtRest
Quiet == \A p \in Processes : process[p].at = "stopped"

RegistriesStep ==
    /\ RegistriesNext
    /\ commands' # commands => MayStart
    /\ disk' = [disk EXCEPT
           !["users.json"] = IF users = Missing /\ users' # Missing THEN Theirs ELSE @,
           !["project.json"] = IF project = Missing /\ project' # Missing THEN Theirs ELSE @]
    /\ UNCHANGED <<keyring, setup, setups, changes>>

\* The generated users file has one owner, a member of the generated project.
GeneratedUsers(owner) ==
    [NoUsers EXCEPT ![owner] = [role |-> "owner", token |-> issued + 1, enabled |-> TRUE]]
GeneratedProject ==
    [enabled |-> TRUE, exposed_folders |-> Folders, allowed_tools |-> {"*"},
     members |-> [u \in Users |-> IF users[u] = None THEN None ELSE "owner"]]

SetupStep ==
    /\ SetupNext
    /\ Quiet
    /\ \E owner \in Users :
           users' = IF disk'["users.json"] = disk["users.json"] THEN users
                    ELSE IF disk'["users.json"] = Absent THEN Missing
                    ELSE GeneratedUsers(owner)
    /\ issued' = IF users' \notin {users, Missing} THEN issued + 1 ELSE issued
    /\ project' = IF disk'["project.json"] = disk["project.json"] THEN project
                  ELSE IF disk'["project.json"] = Absent THEN Missing
                  ELSE GeneratedProject
    /\ meant' = [users |-> IF users' = users THEN meant.users ELSE Listed(users'),
                 project |-> IF project' = project THEN meant.project ELSE project']
    /\ UNCHANGED <<audit, process, waiting, raced, void, bounds>>

Next == RegistriesStep \/ SetupStep

Spec == Init /\ [][Next]_vars

=============================================================================
