SPECIFICATION FairSpec
CONSTANTS
  phone = phone
  laptop = laptop
  dns = dns
  game = game
  NoSender = NoSender
  NoTarget = NoTarget
  Senders <- TwoSenders
  Targets <- TwoTargets
CHECK_DEADLOCK FALSE
INVARIANTS
  IInv
  EveryConnHasReader
  AnswersHaveAddressee
PROPERTIES
  AssociationReleased
