\* One part at work at a time, some beside a vault of up to two receipts.
SPECIFICATION PeripherySpec
CONSTANTS
  Namespaces = {"default"}
  MaxId = 2
  Url = {p1, p2}
  NotaryKey = {x1, x2}
  Coverer = {c1}
  NoFile = NoFile
  Torn = Torn
  MaxCovered = 2
  MaxBatch = 2
  MaxRuns = 3
  Saver = {p1, p2}
  Node = {1, 2, 3, 4}
  NoNode = NoNode
  HalfWritten = HalfWritten
  Passphrase = {p1, p2}
  MaxCommits = 2
  Gone = Gone
  Cut = Cut
  Models = {x1, x2}
  Phrases = {secret}
  PiiKinds = {email}
  Editor = {p1, p2}
  Missing = Missing
  Broken = Broken
  UserIds = {x1, x2}
  LeadIds = {x1, x2}
  Emails = {x1, x2}
  MaxSaves = 2
  Publisher = {p1, p2}
  RepKey = {y1, y2}
  Partial = Partial
  MaxClock = 2
  MaxFiles = 1
  Attestor = {u1, u2, u3}
  Upgrader = {u1}
  Subject = {1, 2}
  NoManifest = NoManifest
  Tsa = {freetsa}
  DefaultTsa = freetsa
  TsaUrl = {u1, u2}
  StaticUrl <- OneUrl
  Cert = {1, 2}
  NoValue = NoValue
  Base = 4
  Nonce = {1, 2, 6}
  MaxChanges = 2
  MaxAnchors = 2
  Command = {c1, c2}
  Absent = Absent
  Emptied = Emptied
  MaxCommands = 2
  MaxKeys = 2
  MaxReceipts = 2
  Claim = {1, 2}
  Operator = Operator
  Witness = {w1, w2}
  KnownWitness = {w1}
  Unsigned = Unsigned
  Ttl = 2
  MaxTime = 3
  Integer <- Integers
  MaxLevels = 3
  Lengths = {0, 1, 23, 24, 255, 256}
  MaxWritten = 5
  Handle = {h1, h2}
  Port = {1, 2}
  Own = Own
  Free = Free
  Foreign = Foreign
  LlmCall = {c1, c2, c3}
  MaxPrompts = 2
  Thread = {t1, t2}
  MaxCalls = 3
  MaxDepth = 3
  NoId = NoId
  MaxRecords = 3
  MaxImports = 2
  Cr = Cr
  Lf = Lf
  Colon = Colon
  Data = Data
  MaxBytes = 6
  NoParam = NoParam
  MaxMessages = 2
  TextLength = 4
  Detectors = 2
  NoRules = NoRules
SYMMETRY Symmetric
INVARIANTS
  
  CoverageComplete
  
  
  NothingForgotten
  AnnouncedStays
  
  
  
  
  
  
CHECK_DEADLOCK FALSE
