SPECIFICATION Spec
CONSTANTS
    None = None
    Absent = Absent
    NLines = 1
    Clouds = {"google", "microsoft"}
    GoogleReplace = TRUE
    AutoRewrite = FALSE
    CreateTags = TRUE
    Racing = {}
    Habits = {}
    MaxEdits = 3
    MaxFailures = 0
PROPERTY
    UnresolvedKeepsClouds
