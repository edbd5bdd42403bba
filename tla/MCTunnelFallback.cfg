SPECIFICATION Spec
CONSTANTS
  d1 = d1
  s1 = s1
  s2 = s2
  NoSession = NoSession
  Dialers <- OneDialer
  Sessions <- TwoSessions
  MaxCount = 1
  HandshakeLimit = 1
  RetryAfters <- ShortAndLong
  Preferred = TRUE
  PreferredAnswers <- AnyAnswer
INVARIANT FallbackHasTime
