\* Two first requests on a fresh installation, nobody dies.
SPECIFICATION Spec
CONSTANTS
  Process = {p1, p2}
  Keys = {k1, k2, k3}
  None = None
  Empty = Empty
  HasKeychain = FALSE
  MayCrash = FALSE
SYMMETRY Symmetric
INVARIANTS
  PublicFileMatches
