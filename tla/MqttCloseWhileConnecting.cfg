SPECIFICATION FairSpec
CONSTANTS
  Calls = {}
  Closers = {k1}
  None = None
  MaxId = 1
  KeepAlive = FALSE
  ServerLimits = {"default"}
  OpensAmid = {}
PROPERTIES
  CloseWhileConnectingReturns
