\* One goal, deep: every order of controls, replacements and invocations.
SPECIFICATION Spec
CONSTANTS
    Goals = {g1}
    Assignments = {a1, a2, a3}
    Invocations = {i1, i2}
    MaxRevision = 2
    MaxInput = 2
    MaxAuthority = 4
SYMMETRY Symmetry
INVARIANTS
    TypeOK
    OneActiveAssignment
    SnapshotsInherited
    CurrentIsRunnable
PROPERTIES
    AuthorityEpoch
    StaleForever
    CancelIsFinal
