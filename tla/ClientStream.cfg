SPECIFICATION FairSpec
CONSTANTS
  Requests = {r1, r2, r3}
  Main = Main
  Nobody = Nobody
INVARIANTS TypeOK WireIsWholeResponses NothingStranded
PROPERTIES RequestsAnswered ImplementsExchange
CHECK_DEADLOCK FALSE
