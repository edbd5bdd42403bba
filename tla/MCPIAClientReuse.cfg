SPECIFICATION Spec
CONSTANTS
  c1 = c1
  c2 = c2
  t1 = t1
  t2 = t2
  t3 = t3
  t4 = t4
  NoCaller = NoCaller
  NoToken = NoToken
  Callers <- TwoCallers
  Tokens <- ThreeTokens
  MaxRejections = 2
PROPERTY GoodTokenIsKept
