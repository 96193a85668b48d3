CONSTANTS
  a = a  b = b  c = c
  NoOp = NoOp
  Ops = {a, b, c}
  Kinds = {"qos0", "qos1", "qos2", "subscribe", "unsubscribe"}
  Interruptible = {"qos0", "qos1", "qos2"}
  Unencodable = {c}
  Retained = {a}
  MaxPublishQoS = 2
  RetainAvailable = FALSE
  MaxId = 2
SPECIFICATION ResponsiveSpec
INVARIANTS TypeOK IdOwnership LowestFree ExchangeOnWire OwnAnswer NoLocalDeath NoLeak
PROPERTIES NoReuseInFlight EveryCallReturns
CHECK_DEADLOCK FALSE
