SPECIFICATION FairSpec
CONSTANTS
  north = north
  south = south
  Nobody = Nobody
  Tunnels <- TwoTunnels
INVARIANTS
  IInv
PROPERTIES
  DialsProceed
  StatusAnswered
