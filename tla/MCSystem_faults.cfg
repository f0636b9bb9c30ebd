CONSTANTS
  r1 = r1
  p1 = p1
  p2 = p2
  NoId = NoId
  ReqIds = {r1}
  Pieces = {p1, p2}
  MaxResponse = 2
  MayFail = {}
  SendFailures = {}
  MayBeKilled = FALSE
  MayThrow = {}
  DictationErrors = {"CANCELLED", "ERROR_NO_SPEECH", "ERROR_PHONE_CONNECTIVITY", "ERROR_DICTATION"}
  MaxLosses = 2
  Transcripts <- MCTranscripts
SPECIFICATION FairSpec
INVARIANTS
  NoProtocolError
PROPERTIES
  PhoneReleased
CHECK_DEADLOCK FALSE
