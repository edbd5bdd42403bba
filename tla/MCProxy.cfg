SPECIFICATION FairSpec
CONSTANTS
  k1 = k1
  s1 = s1
  s2 = s2
  Socket = Socket
  NoSocket = NoSocket
  NoSession = NoSession
  Clients <- OneClient
  Sessions <- TwoSessions
CHECK_DEADLOCK FALSE
INVARIANTS
  ReturnedMeansDown
  IInv
PROPERTIES
  StartIsNoticed
  RunReturns
