CONSTANTS
  Messages = {1}
  QoSOf <- OneQoS2
  TopicOf <- OneOnA
  Subscribed = {"a"}
  AutoAck = {"a"}
  QueueSize = 2
  ReplaySize = 0
  ReceiveMaximum = 0
  MaxId = 1
  Retransmitted = {}
  MaxLapses = 1
SPECIFICATION Spec
INVARIANTS QoS2NotLost
CHECK_DEADLOCK FALSE
