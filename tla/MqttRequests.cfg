SPECIFICATION Spec
CONSTANTS
  Calls = {c1, c2, c3}
  Closers = {}
  None = None
  MaxId = 2
  KeepAlive = FALSE
  ServerLimits = {"default"}
  OpensAmid = {}
INVARIANTS
  TypeOK
  RepliesReachTheirCallers
  SlotsMatchCalls
  RequestsDieWithConnection
PROPERTIES
  ImplementsRequestReply
