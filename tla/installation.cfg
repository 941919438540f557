SPECIFICATION Spec
CONSTANTS
    None = None
    Missing = Missing
    Absent = Absent
    Theirs = Theirs
    Users = {u1, u2}
    Folders = {f1}
    Names = {n1, n2}
    MaxSetups = 2
    MaxCalls = 2
    MaxCommands = 2
    MaxKills = 1
    Backups = 2
    Capacity = 1
CHECK_DEADLOCK FALSE
SYMMETRY Symmetry
INVARIANTS
    InstallationInv
    AuditIsContiguous
    LastOwnerStays
    NothingIsLost
    SetupAllOrNothing
PROPERTIES
    DisabledIsFrozen
    NeverOverwrites
