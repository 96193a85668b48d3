CONSTANTS
  r1 = r1
  r2 = r2
  r3 = r3
  None = None
  Requests = {r1, r2}
  TopicOf <- Shared
  CorrOf <- SameCorr
  Cancellable = {r1, r2}
  AppTopics = {"t"}
  Disconnects = TRUE
  MaxPending = 2
  MaxConnections = 2
SPECIFICATION Spec
INVARIANTS CapacityAccounting InterestAccounting ResponseTopicHeld ObserverReleased ClaimIsDeliverable
CHECK_DEADLOCK FALSE
