SPECIFICATION FairSpec
CONSTANTS
  Ports <- MCPorts
  Starts <- MCStarts
  MaxStops = 2
  MaxTaken = 2
  StopRetries = 1
  ViewRetries = 1
  NoPort = NoPort
INVARIANTS TypeOK KeyWrittenBeforeUse ServersHaveFolders StoppedMeansDown ReadyServersAreOurs 
PROPERTY RunsEnd
CHECK_DEADLOCK FALSE
