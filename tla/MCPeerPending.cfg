SPECIFICATION RestartSpec
CONSTANTS
  a1 = a1
  a2 = a2
  Addr = {a1, a2}
  LocalAddr = {}
  NoPiece = NoPiece
  NumPieces = 2
  PieceLength = 2
  FileSize = 3
  OffsetRange = 256
  MaxIn = 1
  MaxOut = 1
  MaxRetries = 1
  EndGamePercent = 50
  FlakyStorage = FALSE
  Unreadable = {}
  MaxEvents = 1
  MaxPayload = 1
INVARIANT PendingMatches
