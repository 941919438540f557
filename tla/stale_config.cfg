SPECIFICATION Spec
CONSTANTS
    None = None
    Missing = Missing
    Agent = Agent
    Other = Other
    Projects = {p1}
    Documents = {d1}
    Tools = {t1}
    Slots = {1, 2, 3}
    MaxEdits = 1
    MaxFaults = 0
INVARIANT
    AgentRunsItsFingerprint
