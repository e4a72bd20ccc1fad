\* The same instance; a key is lost between decision and verification.
SPECIFICATION EvidenceSpec
CONSTANTS
  Namespaces = {n1}
  MaxId = 3
  Client = {c1, c2}
  Keys = {k1, k2}
  None = None
  Requests <- BatchAndNote
  MaxRows = 2
SYMMETRY Symmetric
INVARIANTS
  EvidenceOutlivesKey
