CONSTANTS
  s1 = s1
  s2 = s2
  None = None
  Subs = {s1}
  FilterOf <- Own1
  Inherited = {}
  Consumers = {s1}
  MaxAttempts = 2
  MaxConnections = 2
  MaxStarts <- Once
SPECIFICATION Spec
INVARIANT StoppedStaysStopped
CHECK_DEADLOCK FALSE
