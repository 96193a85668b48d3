CONSTANTS
  r1 = r1
  r2 = r2
  r3 = r3
  None = None
  Requests = {r1, r2, r3}
  TopicOf <- Shared
  CorrOf <- SameCorr
  Cancellable = {}
  AppTopics = {}
  Disconnects = TRUE
  MaxPending = 2
  MaxConnections = 1
SPECIFICATION Spec
PROPERTIES RequestsEnd
CHECK_DEADLOCK FALSE
