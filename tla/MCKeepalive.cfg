CONSTANTS
  a = a  b = b
  AppPings = {a, b}
  Loop = Loop
  KeepaliveOn = TRUE
  QueueSize = 1
  MaxLoad = 3
SPECIFICATION Spec
INVARIANTS PendingIsListed PongsInOrder
PROPERTIES SilentBrokerDetected PublishReturns
CHECK_DEADLOCK FALSE
