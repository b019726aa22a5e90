\* close on a control object that is not open talks to objects of before.
CONSTANT MaxConnections = 2
SPECIFICATION Spec
PROPERTIES
  CloseIsNoOp
