\* A reconnect inside login destroys the object whose login is executing.
CONSTANT MaxConnections = 2
SPECIFICATION Spec
INVARIANTS
  LoginSurvivesReconnect
