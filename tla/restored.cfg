SPECIFICATION Spec
CONSTANTS
    None = None
    Absent = Absent
    NLines = 1
    Clouds = {"google", "microsoft"}
    GoogleReplace = TRUE
    AutoRewrite = FALSE
    CreateTags = FALSE
    Racing = {}
    Habits = {"revert"}
    MaxEdits = 3
    MaxFailures = 0
INVARIANTS
    RegeneratesClouds
