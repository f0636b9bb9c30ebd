SPECIFICATION Spec
CONSTANTS
  SendStart = 8
  ResultChunk = 12
  Request = 248
  Handoff = 8
  ServerResult = 240
  Delay = 5
  MaxChunks = 3
INVARIANTS
  PhoneDecides
  SettlesInTime
