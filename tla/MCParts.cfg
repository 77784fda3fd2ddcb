\* Four goals; files of two lines and calls of two edits; a tree of two nested
\* directories and one change; three products and one earlier invocation.
SPECIFICATION PartsSpec
CONSTANTS
    Goals = {g1, g2, g3, g4}
    NoGoal = NoGoal
    MaxLinks = 1
    NL = "/"
    EditTexts <- Texts
    Replacements <- Puts
    MaxLine = 2
    MaxColumn = 2
    MaxEditCount = 2
    MaxStamp = 2
    Root = "root"
    Directories = {"root", "d", "e"}
    Children <- InDirectory
    BlockedPaths = {"k"}
    InitialTrees <- Trees
    MaxFiles = 3
    MaxEntries = 4
    MaxScanBytes = 4
    MaxFileBytes = 2
    MaxResults = 2
    MaxDepth = 1
    MaxChanges = 1
    MaxProducts = 3
    MaxInvocations = 1
    Sizes = {1, 3}
    RequestSize = 2
    ToolsSize = 1
    ContextLimits = {8, 12}
    Targets = {5, 9}
    Reserve = 2
    WorkWindow = 2
    ObservedWindow = 1
    ReceiptWindow = 1
    DirectoryWindow = 2
    MaxTurns = 1
CHECK_DEADLOCK FALSE
INVARIANTS
    HierarchyIsForest
    SearchTellsWhatItMissed
    ContextIsQualified
PROPERTIES
    EditsMeanWhatWasRead
