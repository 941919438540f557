SPECIFICATION Spec
CONSTANTS
    None = None
    Absent = Absent
    NLines = 1
    Clouds = {"microsoft"}
    GoogleReplace = TRUE
    AutoRewrite = FALSE
    CreateTags = TRUE
    Racing = {"microsoft"}
    Habits = {}
    MaxEdits = 2
    MaxFailures = 0
PROPERTY
    OverwritesOnlyCaptured
