CONSTANTS
  Messages = {1, 2, 3, 4}
  QoSOf <- MixedQoS
  TopicOf <- TwoTopics
  Subscribed = {"a", "b"}
  AutoAck = {"a"}
  QueueSize = 1
  ReplaySize = 2
  ReceiveMaximum = 2
  MaxId = 2
  Retransmitted = {2}
  MaxLapses = 1
SPECIFICATION Spec
INVARIANTS ReplayAccounting AcknowledgedWasHandled ExactlyOncePerConnection HeldKeepsItsPlace QuotaNeverExceeded HeldIsOnItsWay
CHECK_DEADLOCK FALSE
