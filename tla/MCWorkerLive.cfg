\* Two controllers, a Ctrl-C, every continuation: liveness, hence no symmetry.
SPECIFICATION LiveWorkerSpec
CONSTANTS
    Goals = {g1}
    Assignments = {a1, a2}
    Invocations = {i1}
    MaxRevision = 1
    MaxInput = 0
    MaxAuthority = 2
    MaxHuman = 1
    Stages = {w1, w2}
    Workers = {w1, w2}
    NoStage = NoStage
    NoInvocation = NoInvocation
    NoAssignment = NoAssignment
    MaxRuns = 2
    MaxInterrupts = 1
    MaxCrashes = 0
CHECK_DEADLOCK FALSE
PROPERTIES
    RunsEnd
