SPECIFICATION Spec
CONSTANTS
    Blank = Blank
    Words = {x, y}
    MaxLines = 3
    Versions = 2
    Numbered = 3
    Edits = {0, 1, 2}
    Surfaces = 3
INVARIANTS
    MergeInv
    MergesAllOrRefuses
    LoneEditIsKept
    AgreesWithMarkdown
