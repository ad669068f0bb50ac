SPECIFICATION Spec
CONSTANTS
  Output = {"a", "b"}
  Required = {"a"}
  Input = {"x"}
  Peers <- MCPeers
  Holds <- MCHolds
  IsBatch = TRUE
  MaxMessages = 2
  MaxLost = 1
INVARIANTS TypeOK SuccessIsComplete FinalStatusIsLast UploadedOnce
PROPERTIES InterruptedEnds
CHECK_DEADLOCK FALSE
