CONSTANT MaxConnections = 5
SPECIFICATION FairSpec
INVARIANTS
  TransportMeansOpen
  ExecutedOncePerConnection
  ClosedStaysClosed
  NoDeadObject
PROPERTIES
  LoginHolds
  CallReturns
