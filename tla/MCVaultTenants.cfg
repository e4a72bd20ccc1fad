\* Several tenants in one vault, as namespace.py offers.
SPECIFICATION Spec
CONSTANTS
  Client = {c1}
  Namespaces = {"default", "acme"}
  Default = "default"
  Keys = {k1}
  Tags = {t1}
  Operators = {None}
  None = None
  MaxId = 3
INVARIANTS
  IntactVaultVerifies
