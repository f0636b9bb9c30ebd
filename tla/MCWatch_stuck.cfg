CONSTANTS
  r1 = r1
  p1 = p1
  NoId = NoId
  ReqIds = {r1}
  Pieces = {p1}
  MaxChunks = 2
  MaxResponse = 2
  MayFail = {"request"}
  SendFailures = {"CONNECTIVITY", "TRANSFER"}
  MayBeKilled = FALSE
  Transcripts <- MCTranscripts
  Inbox <- MCInbox
SPECIFICATION FairSpec
PROPERTIES
  ErrorCloses
CHECK_DEADLOCK FALSE
