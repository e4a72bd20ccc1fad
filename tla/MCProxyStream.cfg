\* Nothing fails: no fault of vault, network, client or proxy is allowed.
SPECIFICATION ProxySpec
CONSTANTS
  Namespaces = {"default"}
  MaxId = 2
  Call = {c1, c2}
  MaxChunks = 2
  Faults = {}
CHECK_DEADLOCK FALSE
INVARIANTS
  EveryAnswerReceipted
