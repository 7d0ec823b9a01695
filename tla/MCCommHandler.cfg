SPECIFICATION FairSpec
CHECK_DEADLOCK FALSE
CONSTANTS
  Workers = {w1}
  Sockets = {srv, s1, s2}
  Server = srv
  Callbacks <- Registrations
  MaxEvents = 2
  NoCb = NoCb
  MaxConns = 2
  MaxKept = 1
  PerClient = 1
  PerServer = 3
INVARIANTS ReturnedIsHandled CalledOnce
PROPERTIES SocketIsServed AllAccepted WorkersJoin
