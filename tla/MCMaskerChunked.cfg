CONSTANTS
  WordSize = 4
  ChunkLens <- MCChunkLens
  MaxPos = 24
  Disciplined = FALSE
  FrameLens <- MCFrameLens
  BufLens = {24}
  ReadUnit = 1
SPECIFICATION MRSpec
INVARIANTS
  MaskedByPosition
