SPECIFICATION FairSpec
CONSTANTS
  Requests = {r1, r2}
  Main = Main
  Nobody = Nobody
PROPERTY StreamEnds
CHECK_DEADLOCK FALSE
