CONSTANTS
  r1 = r1
  r2 = r2
  p1 = p1
  NoId = NoId
  ReqIds = {r1, r2}
  Pieces = {p1}
  MaxChunks = 3
  MaxResponse = 3
  MayFail = {"window", "appmessage", "dictation", "transcript", "response",
             "animation", "result_view", "send_start", "result_chunk", "exit", "request"}
  SendFailures = {"CONNECTIVITY", "TRANSFER"}
  MayBeKilled = TRUE
  Transcripts <- MCTranscripts
  Inbox <- MCInbox
SPECIFICATION FairSpec
INVARIANTS
  TypeOK
  WatchdogArmed
  NeverStranded
  BridgesAgree
  OutboxMatchesPhase
  ErrorCleansUp
  ResultIsWhole
PROPERTIES
  SendsInOrder
  TerminalIsFinal
  RunsEnd
CHECK_DEADLOCK FALSE
