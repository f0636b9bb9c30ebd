CONSTANTS
  r1 = r1
  r2 = r2
  p1 = p1
  p2 = p2
  NoId = NoId
  ReqIds = {r1, r2}
  Pieces = {p1, p2}
  MaxResponse = 2
  MayFail = {}
  SendFailures = {}
  MayBeKilled = TRUE
  MayThrow = {}
  DictationErrors = {"ERROR_DICTATION"}
  MaxLosses = 1
  Transcripts <- MCTranscripts
SYMMETRY Symmetry
SPECIFICATION Spec
INVARIANTS
  OneExactRequestPerRun
  NoProtocolError
  AwaitsOnlyWhatWasSent
  NobodyWaitsInVain
PROPERTIES
  ImplementsDictation
CHECK_DEADLOCK FALSE
