CONSTANTS
  c1 = c1
  Clients = {c1}
  MaxFrames = 1
  MaxTotal = 1
  Modes = {"iterator"}
  Answers = {"accept"}
SPECIFICATION FairSpec
PROPERTIES
  CloseEnds
CHECK_DEADLOCK FALSE
