\* Two controllers of one goal, human controls between their steps, a Ctrl-C
\* and a death.
SPECIFICATION WorkerSpec
CONSTANTS
    Goals = {g1}
    Assignments = {a1, a2}
    Invocations = {i1}
    MaxRevision = 2
    MaxInput = 1
    MaxAuthority = 3
    MaxHuman = 2
    Stages = {w1, w2}
    Workers = {w1, w2}
    NoStage = NoStage
    NoInvocation = NoInvocation
    NoAssignment = NoAssignment
    MaxRuns = 2
    MaxInterrupts = 1
    MaxCrashes = 1
SYMMETRY Symmetry
CHECK_DEADLOCK FALSE
INVARIANTS
    WorkerTypeOK
    ContextMatchesInvocation
    InvocationsHaveOwners
    RunsAreBound
PROPERTIES
    RecoveryMovesForward
