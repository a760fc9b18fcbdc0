SPECIFICATION FairSpec
CONSTANTS
  Calls = {c1, c2}
  Config = Config
  Nobody = Nobody
  NoIndex = 99
INVARIANTS TypeOK IndexesPartition AnswersReachCaller NoCallForgotten NothingStranded
PROPERTIES CallsComplete ImplementsExchange
CHECK_DEADLOCK FALSE
