SPECIFICATION FairSpec
CONSTANTS
  Base = 2
  Mask = 32
  MaxGroups = 10
  Messages <- MCMessages
  MaxMessages = 3
  ReadSize = 20
INVARIANTS FramesRoundTrip NothingHeldBack
PROPERTIES MessagesArrive ImplementsChannel
CHECK_DEADLOCK FALSE
