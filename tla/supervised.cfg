SPECIFICATION FairSpec
CONSTANTS
    None = None
    Missing = Missing
    Agent = Agent
    Other = Other
    Projects = {p1}
    Documents = {d1, d2}
    Tools = {t1}
    Slots = {1, 2, 3}
    MaxEdits = 1
    MaxFaults = 1
INVARIANTS
    TypeOK
    SupervisorInv
    CachedIsOpen
    OnePublisher
    ReadyMeansServed
PROPERTIES
    AgentIsDrained
    ShutdownDrains
    StopEnds
    EnabledIsServed
