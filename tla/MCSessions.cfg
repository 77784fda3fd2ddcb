\* Two rounds with up to two tools each; two jobs, of one goal or of two; two
\* submissions.
SPECIFICATION SessionsSpec
CONSTANTS
    MaxRounds = 2
    MaxTools = 2
    PendingLimit = 4
    JobGoals = {g1, g2}
    Jobs = {j1, j2}
    MaxSubmits = 2
CHECK_DEADLOCK FALSE
INVARIANTS
    BridgeTypeOK
    
    NoSpuriousRefusal
    FinishedMeansDone
    OneRunPerGoal
PROPERTIES
    SessionEnds
    JobsSettle
    LossEndsSession
