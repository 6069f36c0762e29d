SPECIFICATION Spec
CONSTANTS
  ControlCapacity = 1
  QueueSize = 1
  Heartbeat = {TRUE, FALSE}
  DeliverControl = TRUE
INVARIANTS
  NothingIsLost
PROPERTIES
  UserIsServed
  TimeoutIsReported
CHECK_DEADLOCK FALSE
