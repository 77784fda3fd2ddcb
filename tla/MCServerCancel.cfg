\* A cancel that comes before the run has begun.
SPECIFICATION ServerSpec
CONSTANTS
    JobGoals = {g1}
    Jobs = {j1, j2}
CHECK_DEADLOCK FALSE
PROPERTIES
    CancelRejectsLaterRpcs
