SPECIFICATION FairSpec
CONSTANTS
  Requests = {r1, r2}
  Tasks = {t1, t2}
  Conns = {c1, c2, c3}
  None = None
  Heartbeat = TRUE
PROPERTIES WaitersServed BackgroundTasksEnd ImplementsLink
INVARIANTS SingleReconnectTask SignalMatchesState NoAbandonedWaiter TaskOwnsState
CHECK_DEADLOCK FALSE
