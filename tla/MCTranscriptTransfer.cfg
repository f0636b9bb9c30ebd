SPECIFICATION Spec
CONSTANTS
  Transcripts <- MCTranscripts
  OutboxSizes = {10, 12, 13, 14, 16}
  Overhead = 10
  MaxChunkBytes = 5
INVARIANTS
  RefusesTheUnsendable
  ChunksAreWhole
PROPERTIES
  ImplementsTransfer
