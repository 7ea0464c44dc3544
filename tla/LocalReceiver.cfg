SPECIFICATION Spec
CONSTANTS
  MaxSessions = 2
  MaxFiles = 2
  MaxTime = 2
  Quote = {q1}
  Sizes = {0, 2, 3}
  Limits <- MCLimits
INVARIANTS
  TypeOK
  QuotaRespected
  TotalMatchesAcked
  RecordedOnDisk
  ReceiptIsFinal
  RejectedLeavesNoBytes
PROPERTIES
  LiveFilesKept
  KeepsContract
CHECK_DEADLOCK FALSE
