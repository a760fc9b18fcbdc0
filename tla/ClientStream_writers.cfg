SPECIFICATION FairSpec
CONSTANTS
  Requests = {r1, r2}
  Main = Main
  Nobody = Nobody
PROPERTY WritersEnd
CHECK_DEADLOCK FALSE
