------------------------------- MODULE Setup --------------------------------
(***************************************************************************)
(* Guided setup (setup_wizard.py) and the secrets in the OS keyring         *)
(* (secret_store.py).  An operator runs one command at a time; any of them  *)
(* can be killed, and Ctrl-C in the middle of the writing is the same: it   *)
(* is no Exception, nothing is cleaned up.                                  *)
(*                                                                         *)
(* A file is Absent, Theirs (an operator's or another program's) or the   *)
(* number of the setup that wrote it.  A secret is kept likewise.           *)
(***************************************************************************)
EXTENDS Naturals, Sequences, FiniteSets

CONSTANTS
    Absent,      \* no file, no secret
    Theirs,      \* what an operator or another program wrote
    Names,       \* the secrets' names
    MaxSetups    \* bound: setups that write, and changes an operator makes besides

ASSUME NamesAssumption == IsFiniteSet(Names) /\ Absent # Theirs /\ {Absent, Theirs} \cap Nat = {}
ASSUME SetupsAssumption == MaxSetups \in Nat

\* relative_targets, in the order in which they are written.
Order == <<".env", "config.json", "mcp-config.json", "users.json", "project.json">>
Targets == {Order[i] : i \in DOMAIN Order}
Value == {Absent, Theirs} \cup 1..MaxSetups

VARIABLES
    disk,     \* the files of the output directory
    keyring,  \* the secrets
    setup,    \* where the wizard is
    setups,   \* how many have begun to write
    changes

setupVars == <<disk, keyring, setup, setups, changes>>

\* secrets: the names left to store, or to put back; updated: those stored;
\* previous: the keyring read before; first: history, the keyring when it began;
\* stuck: history, an error was suppressed while something was undone.
NoSetup == [at |-> "none", created |-> 0, secrets |-> {}, updated |-> {},
            previous |-> Absent, first |-> Absent, stuck |-> FALSE]

SetupInit ==
    /\ disk \in {[t \in Targets |-> Absent], [t \in Targets |-> Theirs],
                 [t \in Targets |-> IF t = "mcp-config.json" THEN Theirs ELSE Absent]}
    /\ keyring = [n \in Names |-> Theirs]
    /\ setup = NoSetup
    /\ setups = 0 /\ changes = 0

Moves(at) == setup' = [setup EXCEPT !.at = at]
AtRest == setup.at \in {"none", "failed", "done"}

-----------------------------------------------------------------------------
(* generate_setup.                                                          *)

\* The operator is asked everything first, and may leave before anything is written.
Run ==
    /\ AtRest
    /\ setups + changes < MaxSetups
    /\ setup' = [NoSetup EXCEPT !.at = "asking"]
    /\ UNCHANGED <<disk, keyring, setups, changes>>

Cancel == setup.at = "asking" /\ setup' = NoSetup /\ UNCHANGED <<disk, keyring, setups, changes>>

\* The users file may be there.
ConflictsSlip == {t \in Targets \ {"users.json"} : disk[t] # Absent}

Conflicts == {t \in Targets : disk[t] # Absent}

\* The targets that are there stop it.  Secrets left blank are
\* not stored: none is taken to be, or all.
Confirm ==
    /\ setup.at = "asking"
    /\ IF Conflicts # {}
       THEN setup' = NoSetup /\ UNCHANGED setups
       ELSE /\ setups' = setups + 1
            /\ \E wanted \in {{}, Names} :
                   setup' = [setup EXCEPT !.at = "writing", !.secrets = wanted,
                                          !.first = keyring]
    /\ UNCHANGED <<disk, keyring, changes>>

\* One target after the other, each renamed into its place.
WriteTarget ==
    /\ setup.at = "writing" /\ setup.created < Len(Order)
    /\ disk' = [disk EXCEPT ![Order[setup.created + 1]] = setups]
    /\ setup' = [setup EXCEPT !.created = @ + 1]
    /\ UNCHANGED <<keyring, setups, changes>>

\* An exposed folder that escapes, a file that cannot be written.
WriteFails ==
    /\ setup.at = "writing" /\ setup.created < Len(Order)
    /\ Moves("cleaning")
    /\ UNCHANGED <<disk, keyring, setups, changes>>

Created == {Order[i] : i \in 1..setup.created}

\* _clean_partial_setup goes on to the next file where one cannot be removed; one at
\* most is taken to be so.
Clean ==
    /\ setup.at = "cleaning"
    /\ \E kept \in {{}} \cup {{t} : t \in Created} :
        /\ disk' = [t \in Targets |-> IF t \in Created \ kept THEN Absent ELSE disk[t]]
        /\ setup' = [NoSetup EXCEPT !.at = "failed", !.first = setup.first,
                                    !.stuck = setup.stuck \/ kept # {}]
    /\ UNCHANGED <<keyring, setups, changes>>

-----------------------------------------------------------------------------
(* save_secrets.                                                            *)

Ends == IF setup.secrets = {} THEN "done" ELSE "storing"

\* Nothing to store is nothing to read; a keyring that cannot be read stops it.
ReadSecrets ==
    /\ setup.at = "writing" /\ setup.created = Len(Order)
    /\ \/ setup' = [setup EXCEPT !.at = Ends, !.previous = keyring]
       \/ setup.secrets # {} /\ Moves("cleaning")
    /\ UNCHANGED <<disk, keyring, setups, changes>>

StoreSecret(n) ==
    /\ setup.at = "storing" /\ n \in setup.secrets
    /\ keyring' = [keyring EXCEPT ![n] = setups]
    /\ setup' = [setup EXCEPT !.secrets = @ \ {n}, !.updated = @ \cup {n},
                              !.at = IF setup.secrets = {n} THEN "done" ELSE @]
    /\ UNCHANGED <<disk, setups, changes>>

StoreFails ==
    /\ setup.at = "storing"
    /\ Moves("restoring")
    /\ UNCHANGED <<disk, keyring, setups, changes>>

\* The stored secrets are deleted, also those that replaced another one.
RestoreSecretSlip(n) ==
    /\ setup.at = "restoring" /\ n \in setup.updated
    /\ keyring' = [keyring EXCEPT ![n] = Absent]
    /\ setup' = [setup EXCEPT !.updated = @ \ {n}]
    /\ UNCHANGED <<disk, setups, changes>>

\* An error of the keyring is suppressed.
RestoreSecret(n) ==
    /\ setup.at = "restoring" /\ n \in setup.updated
    /\ \/ /\ keyring' = [keyring EXCEPT ![n] = setup.previous[n]]
          /\ setup' = [setup EXCEPT !.updated = @ \ {n}]
       \/ /\ setup' = [setup EXCEPT !.updated = @ \ {n}, !.stuck = TRUE]
          /\ UNCHANGED keyring
    /\ UNCHANGED <<disk, setups, changes>>

\* save_secrets raises, and generate_setup cleans up.
Restored ==
    /\ setup.at = "restoring" /\ setup.updated = {}
    /\ Moves("cleaning")
    /\ UNCHANGED <<disk, keyring, setups, changes>>

-----------------------------------------------------------------------------
(* What else happens to the directory and the keyring.                      *)

Interrupt == ~AtRest /\ setup' = NoSetup /\ UNCHANGED <<disk, keyring, setups, changes>>

Change ==
    /\ AtRest
    /\ setups + changes < MaxSetups
    /\ changes' = changes + 1
    /\ setup' = NoSetup

\* Setup asks the operator to move the files that were there out of its way.
MoveAway == Change /\ disk' = [t \in Targets |-> Absent] /\ UNCHANGED <<keyring, setups>>

\* `set-secret` and `delete-secret`.
SetSecret(n) == Change /\ keyring' = [keyring EXCEPT ![n] = Theirs] /\ UNCHANGED <<disk, setups>>
DeleteSecret(n) == Change /\ keyring' = [keyring EXCEPT ![n] = Absent] /\ UNCHANGED <<disk, setups>>

SetupNext ==
    \/ Run \/ Cancel \/ Confirm
    \/ WriteTarget \/ WriteFails \/ ReadSecrets \/ Clean
    \/ \E n \in Names : StoreSecret(n) \/ RestoreSecret(n)
    \/ StoreFails \/ Restored \/ Interrupt
    \/ MoveAway
    \/ \E n \in Names : SetSecret(n) \/ DeleteSecret(n)

=============================================================================
