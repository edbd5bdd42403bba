SPECIFICATION FairSpec
CONSTANTS
  c1 = c1
  c2 = c2
  t1 = t1
  t2 = t2
  t3 = t3
  t4 = t4
  NoCaller = NoCaller
  NoToken = NoToken
  Callers <- TwoCallers
  Tokens <- FourTokens
  MaxRejections = 3
INVARIANTS
  LoginsArePaidFor
  RejectedIsNotResent
  IInv
PROPERTIES
  CallsReturn
