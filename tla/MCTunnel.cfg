SPECIFICATION FairSpec
CONSTANTS
  d1 = d1
  s1 = s1
  s2 = s2
  NoSession = NoSession
  Dialers <- OneDialer
  Sessions <- TwoSessions
  MaxCount = 2
  HandshakeLimit = 1
  RetryAfters <- ShortAndLong
  Preferred = TRUE
  PreferredAnswers <- AnyAnswer
INVARIANTS
  PublishedNetIsOpen
  LoopsWithinSession
  NoDeviceLeak
  RetriesCoolDown
  IInv
PROPERTIES
  PromiseKept
  PromotionIsJustified
  CancelShutsDown
  StaleIsNoticed
  Recovers
  EventuallyUp
