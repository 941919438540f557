SPECIFICATION Spec
CONSTANTS
    None = None
    Absent = Absent
    NLines = 1
    Clouds = {"google", "microsoft"}
    GoogleReplace = TRUE
    AutoRewrite = FALSE
    CreateTags = TRUE
    Racing = {"github"}
    Habits = {}
    MaxEdits = 2
    MaxFailures = 1
INVARIANT
    TagsNameTheirVersion
