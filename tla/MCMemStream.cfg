CONSTANTS
  B = 2
  Bytes <- MCBytes
  WriteArgs <- MCWriteArgs
  ReadLens <- MCReadLens
  ReadOffsets <- MCReadOffsets
  MaxLen = 5
SPECIFICATION Spec
INVARIANTS
  TypeOK
  ChunkShape
  ReadCopiesRange
  EqualityIsContent
  FlatIsConcatenation
PROPERTIES
  ImplementsFlatStream
