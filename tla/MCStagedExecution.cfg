SPECIFICATION LiveSpec
CONSTANTS
  MaxCalls = 2
  Cancellers = {"thread", "ctrl_c"}
INVARIANTS StagedTypeOK PublicationIsExact CancelReachesTask ReceiptTellsCancellation
PROPERTIES ContainerCancelIsFinal CallsEnd
CHECK_DEADLOCK FALSE
