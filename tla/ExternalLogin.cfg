\* Three callbacks, two identities of which one has a name, two browsers.
SPECIFICATION Spec
CONSTANTS
  Browsers = {b1, b2}
  Requests = {r1, r2, r3}
  Externals = {e1, e2}
  Named = {e1}
  Users = {u1, u2, u3}
  None = None
SYMMETRY Symmetry
INVARIANTS TypeOK SignedInAsSelf LoginsAreComplete
PROPERTY DirectorySpec
CHECK_DEADLOCK FALSE
