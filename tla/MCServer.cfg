CONSTANTS
  c1 = c1
  c2 = c2
  Clients = {c1, c2}
  MaxFrames = 2
  MaxTotal = 3
  Modes = {"iterator", "callback"}
  Answers = {"accept", "raise", "invalid"}
SPECIFICATION FairSpec
INVARIANTS
  NothingForgotten
PROPERTIES
  ImplementsAnswering
  CloseEndsUnlessLate
  DictationsAnswered
CHECK_DEADLOCK FALSE
