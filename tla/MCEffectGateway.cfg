\* One goal, one target, one invocation: two proposals against every change of
\* authority between their steps.
SPECIFICATION GatewaySpec
CONSTANTS
    Goals = {g1}
    Assignments = {a1}
    Invocations = {i1}
    MaxRevision = 1
    MaxInput = 1
    MaxAuthority = 3
    Contents = {empty, context}
    EmptyContent = empty
    ContextContent = context
    Targets = {t1}
    Effects = {f1, f2}
    NoOperation = NoOperation
    MaxEvidence = 2
SYMMETRY Symmetry
INVARIANTS
    GatewayTypeOK
    HistoryExplainsDestination
    DeliveredIsRecorded
    ImportAccepts
PROPERTIES
    KeepsPromise
