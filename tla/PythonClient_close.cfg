SPECIFICATION Spec
CONSTANTS
  Calls = {c1, c2}
  Config = Config
  Nobody = Nobody
  NoIndex = 99
SYMMETRY Symmetry
INVARIANT AllFuturesClosed
CHECK_DEADLOCK FALSE
