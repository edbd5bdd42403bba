SPECIFICATION FairSpec
CONSTANTS
  main = main
  wifi = wifi
  s1 = s1
  s2 = s2
  s3 = s3
  k1 = k1
  k2 = k2
  NoSocket = NoSocket
  Controllers <- TwoControllers
  Sockets <- ThreeSockets
  Clients <- TwoClients
INVARIANTS
  IInv
  StoppedMeansUnbound
PROPERTIES
  PromiseKept
  StopTerminates
  CancelCloses
