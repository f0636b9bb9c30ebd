SPECIFICATION Spec
CONSTANTS
  Responses <- MCResponses
  MaxResponseBytes = 11
  ResponseChunkBytes = 4
INVARIANTS
  RejectsTheOversized
  ChunksAreFull
PROPERTIES
  ImplementsTransfer
