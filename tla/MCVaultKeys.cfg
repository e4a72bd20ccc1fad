\* One client at a time while keys are rotated, revoked and lost.
SPECIFICATION Spec
CONSTANTS
  Client = {c1}
  Namespaces = {"default", "acme"}
  Default = "default"
  Keys = {k1, k2}
  Tags = {t1}
  Operators = {None, op1}
  None = None
  MaxId = 3
INVARIANTS
  OnlyTagsDrift
  KeysRetained
  BundleAgrees
PROPERTIES
  KeyHistoryMonotone
