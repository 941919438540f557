SPECIFICATION FairSpec
CONSTANTS
    None = None
    Absent = Absent
    NLines = 1
    Clouds = {"google", "microsoft"}
    GoogleReplace = TRUE
    AutoRewrite = TRUE
    CreateTags = TRUE
    Racing = {"github", "google", "microsoft"}
    Habits = {"rich", "clear", "delete", "revert", "merge"}
    MaxEdits = 2
    MaxFailures = 1
INVARIANTS
    TypeOK
    PassInv
    RecordIsCoherent
    PublishedIsCommitted
PROPERTIES
    KeepsPromise
    KeepsWholePromise
    EditsReachGit
