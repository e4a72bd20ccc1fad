\* Two calls through the proxy while anything may fail; or two host threads.
SPECIFICATION RecordersSpec
CONSTANTS
  Namespaces = {"default"}
  MaxId = 2
  Call = {c1, c2}
  MaxChunks = 2
  Faults = {"crash", "append", "client", "upstream"}
  Thread = {t1, t2}
  MaxPieces = 2
  Nobody = Nobody
INVARIANTS
  AnswerIsReceipted
  NoPartialReceipt
  ErrorMeansNoReceipt
  PathRestored
  CapturedInProject
  OneReceiptPerCall
  HostUndisturbed
PROPERTIES
  StreamGetsReceipt
  
  RecordingEnds
CHECK_DEADLOCK FALSE
