CONSTANTS
  WordSize = 8
  ChunkLens <- MCChunkLens
  MaxPos = 24
  Disciplined = FALSE
  FrameLens <- MCFrameLens
  BufLens = {4, 8, 12, 24}
  ReadUnit = 4
SPECIFICATION MRSpec
INVARIANTS
  MTypeOK
  MaskedByPosition
  OffsetTracksPos
  EachByteOnce
PROPERTY
  ReaderIsDisciplined
