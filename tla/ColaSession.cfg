CONSTANTS
  Protocols = {"CoLa2", "CoLaB"}
  ReqIds = 3
  SessionIds = {7}
  MaxRequests = 6
SPECIFICATION FairSpec
INVARIANTS
  TypeOK
  ReplyBelongs
  RepliesInOrder
PROPERTIES
  RemoteCallSpec
  CallReturns
