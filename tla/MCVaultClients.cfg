\* Two clients race on one vault and one signing key.
SPECIFICATION Spec
CONSTANTS
  Client = {c1, c2}
  Namespaces = {"default", "acme"}
  Default = "default"
  Keys = {k1}
  Tags = {t1}
  Operators = {None}
  None = None
  MaxId = 3
INVARIANTS
  TypeOK
  NamespaceChains
  VerifyExact
PROPERTIES
  NoResurrection
  ImplementsLedger
