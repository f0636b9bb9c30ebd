CONSTANTS
  r1 = r1
  r2 = r2
  p1 = p1
  NoId = NoId
  ReqIds = {r1, r2}
  Pieces = {p1}
  MaxChunks = 2
  MaxResponse = 2
  MaxSessions = 2
  MayThrow = {"WebSocket", "send", "sendAppMessage"}
  WatchInbox <- MCWatchInbox
  Frames <- MCFrames
  PromptFrames <- MCPromptFrames
SPECIFICATION FairSpec
INVARIANTS
  TypeOK
  BridgesAgree
  NoTranscriptLeftBehind
  OutgoingWellFormed
PROPERTIES
  OneWholeRequest
  LateCompletionHarmless
  SessionsEnd
