\* Two controllers of one goal: one gets a Ctrl-C while the other ends a turn.
SPECIFICATION WorkerSpec
CONSTANTS
    Goals = {g1}
    Assignments = {a1, a2}
    Invocations = {i1, i2}
    MaxRevision = 1
    MaxInput = 0
    MaxAuthority = 3
    MaxHuman = 1
    Stages = {w1, w2}
    Workers = {w1, w2}
    NoStage = NoStage
    NoInvocation = NoInvocation
    NoAssignment = NoAssignment
    MaxRuns = 2
    MaxInterrupts = 1
    MaxCrashes = 0
SYMMETRY Symmetry
CHECK_DEADLOCK FALSE
PROPERTIES
    CtrlCRecordsPause
