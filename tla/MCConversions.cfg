SPECIFICATION Spec
CONSTANTS
  known = known
  retired = retired
  NoPort = NoPort
  BadPort = BadPort
  Base = 5
  V4Len = 1
  MappedPrefix <- OneByte
  Version = 2
  Method = 0
  MaxBytes = 8
  Regions <- TwoRegions
  KnownRegions <- OneKnown
  DefaultRegions <- Defaults
  BasePort = 11
  Ports <- ThreePorts
  MaxEntries = 4
  MaxInt = 127
  Second = 10
  RateLimitFloor = 30
CHECK_DEADLOCK FALSE
INVARIANTS
  AnswersReadBack
  PortsAsDocumented
  CooldownBounds
PROPERTIES
  SegmentationIsInvisible
