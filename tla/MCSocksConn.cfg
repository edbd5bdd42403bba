SPECIFICATION FairSpec
CONSTANTS
  alice = alice
  secret = secret
  wrong = wrong
  Empty = Empty
  Username = alice
  Password = secret
  Strings <- AllStrings
  MaxChunks = 2
CHECK_DEADLOCK FALSE
INVARIANTS
  IInv
  AuthBeforeUse
  AnsweredOnce
  EndingDirectionComplete
PROPERTIES
  ConnIsReleased
