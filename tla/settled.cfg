SPECIFICATION Spec
CONSTANTS
    None = None
    Absent = Absent
    NLines = 2
    Clouds = {"google", "microsoft"}
    GoogleReplace = TRUE
    AutoRewrite = FALSE
    CreateTags = TRUE
    Racing = {"github"}
    Habits = {"rich", "merge"}
    MaxEdits = 3
    MaxFailures = 1
INVARIANTS
    CloudInv
    LatestInv
    SeenIsCaptured
    LatestEditWins
    Converged
    TaggedIsEverywhere
PROPERTIES
    OverwritesOnlyCaptured
