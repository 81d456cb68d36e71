SPECIFICATION HaveSpec
CONSTANTS
  Base = 8
  MaxPieces = 6
  BufferSize = 3
  MaxLength = 24
  WordBytes = 2
  IntBits = 5
CHECK_DEADLOCK FALSE
INVARIANTS TypeOK DescriptorExact CopyIsSeed PiecesPartition WordExact
