SPECIFICATION Spec
CHECK_DEADLOCK FALSE
CONSTANTS
  Workers = {w1}
  Sockets <- BothSockets
  Callbacks <- AllCallbacks
  MaxEvents = 1
  NoCb = NoCb
  Senders <- BothSockets
  MaxData = 1
  MaxMonitor = 2
  AtOnce = {"refused"}
  Ends = {"closed", "reset"}
INVARIANTS CallbacksAreSafe OnePipePerSocket ServerIsHeard ReleasedAtRest
