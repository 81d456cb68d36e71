SPECIFICATION RestartSpec
CONSTANTS
  c1 = c1
  c2 = c2
  c3 = c3
  Addr = {c1, c2, c3}
  LocalAddr = {c1, c2, c3}
  Hears <- Line
  Start <- OneSeed
  NoPiece = NoPiece
  NumPieces = 1
  PieceLength = 1
  FileSize = 1
  OffsetRange = 256
  MaxIn = 1
  MaxOut = 1
  MaxRetries = 1
  EndGamePercent = 80
  FlakyStorage = FALSE
  Unreadable = {}
  MaxPayload = 2
  MaxFlight = 1
INVARIANTS TypeOK RequestsMeetHolders EnvironmentCovers RestartsClean
PROPERTY PiecesSpread
