CONSTANTS
  a = a  b = b  c = c
  NoOp = NoOp
  Ops = {a, b}
  Kinds = {"qos1", "subscribe", "unsubscribe"}
  Interruptible = {"qos1", "subscribe", "unsubscribe"}
  Unencodable = {}
  Retained = {}
  MaxPublishQoS = 2
  RetainAvailable = TRUE
  MaxId = 2
SPECIFICATION Spec
INVARIANTS OnlyBrokerViolations
CHECK_DEADLOCK FALSE
