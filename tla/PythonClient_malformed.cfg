SPECIFICATION Spec
CONSTANTS
  Calls = {c1, c2, c3, c4}
  Config = Config
  Nobody = Nobody
  NoIndex = 99
SYMMETRY Symmetry
INVARIANT FuturesStayInMap
CHECK_DEADLOCK FALSE
