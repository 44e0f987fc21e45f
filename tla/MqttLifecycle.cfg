SPECIFICATION FairSpec
CONSTANTS
  Calls = {c1}
  Closers = {k1, k2}
  None = None
  MaxId = 1
  KeepAlive = TRUE
  ServerLimits = {"default", "tight", "excess"}
  OpensAmid = {"writing", "lateWrite", "failing"}
INVARIANTS
  OneHandler
  NoLeakedConnection
  StreamBracketsSessions
  PingOnlyInSession
PROPERTIES
  CloseAfterDisconnectReturns
  SessionCallsSettle
  SilentBrokerNoticed
