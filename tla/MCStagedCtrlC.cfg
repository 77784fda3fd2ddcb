SPECIFICATION Spec
CONSTANTS
  MaxCalls = 1
  Cancellers = {"ctrl_c"}
INVARIANT CancelTerminatesExecution
CHECK_DEADLOCK FALSE
