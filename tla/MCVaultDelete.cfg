\* A namespace is deleted while another client writes to it.
SPECIFICATION Spec
CONSTANTS
  Client = {c1, c2}
  Namespaces = {"default", "acme"}
  Default = "default"
  Keys = {k1}
  Tags = {t1}
  Operators = {None}
  None = None
  MaxId = 3
PROPERTIES
  DeleteLeavesNothing
