\* Two stages of one line: a file that is selected, and one that is generated.
SPECIFICATION WorkspaceSpec
CONSTANTS
    Paths = {f, b}
    Generated = {b}
    Stages = {s1, s2}
    NoStage = NoStage
    MaxEdits = 2
    MaxShown = 1
SYMMETRY Symmetry
CONSTRAINT UntilExport
CHECK_DEADLOCK FALSE
INVARIANTS
    ExportIsReviewed
    DeletionsWereMade
    BaselineIsFirstSelection
    MatchingPatchApplies
