SPECIFICATION Spec
CONSTANTS
  Calls = {}
  Closers = {k1, k2}
  None = None
  MaxId = 1
  KeepAlive = FALSE
  ServerLimits = {"default"}
  OpensAmid = {"passing"}
INVARIANTS
  OneHandler
