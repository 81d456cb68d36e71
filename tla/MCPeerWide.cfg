SPECIFICATION Spec
CONSTANTS
  a1 = a1
  a2 = a2
  Addr = {a1, a2}
  LocalAddr = {}
  NoPiece = NoPiece
  NumPieces = 1
  PieceLength = 4
  FileSize = 4
  OffsetRange = 2
  MaxIn = 1
  MaxOut = 1
  MaxRetries = 1
  EndGamePercent = 50
  FlakyStorage = FALSE
  Unreadable = {}
  MaxEvents = 1
  MaxPayload = 1
INVARIANT PrefixWritten
