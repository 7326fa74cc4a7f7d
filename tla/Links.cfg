SPECIFICATION LinksSpec
CONSTANTS
  Capacity = 2
  MaxPosition = 4
  MaxGeneration = 4
  Tokens = {"t1", "t2"}
  MaxSessions = 1
  MaxFailures = 1
  MaxVersion = 2
  Clients = {"k1", "k2"}
  Sizes = {1, 2}
INVARIANTS LegacyDrawsOnItsOwn
PROPERTIES StreamsStayApart SocketsFollow ServeReturns
CHECK_DEADLOCK FALSE
