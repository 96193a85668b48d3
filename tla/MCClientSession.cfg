CONSTANTS
  s1 = s1
  s2 = s2
  None = None
  Subs = {s1, s2}
  FilterOf <- Own
  Inherited = {"g"}
  Consumers = {s1}
  MaxAttempts = 2
  MaxConnections = 3
  MaxStarts <- OneRestart
SPECIFICATION Spec
INVARIANTS ActiveIsSubscribed NoOrphanFilter  RecoveryReported
PROPERTIES OutageEnds ConsumersWoken
CHECK_DEADLOCK FALSE
