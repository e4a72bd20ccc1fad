\* Two processes, up to three generations, crashes, with a keychain.
SPECIFICATION Spec
CONSTANTS
  Process = {p1, p2}
  Keys = {k1, k2, k3}
  None = None
  Empty = Empty
  HasKeychain = TRUE
  MayCrash = TRUE
SYMMETRY Symmetric
INVARIANTS
  FilesAgree
  SignsUnderOwnId
  KeyNotDestroyed
